---- MODULE Spec2Model ----
(***************************************************************************)
(* ByteBuddy analyzer: the response-parsing and score-derivation logic of  *)
(* ByteBuddyAnalyzer (src/unnamed/part_000, the plain theme) and of its    *)
(* hacker-themed copy (src/app/static/js/analysis.js), and the submit      *)
(* cycle that fetches a response and paints the tabs from it.              *)
(*                                                                         *)
(* A JavaScript string is a sequence of one-character strings.  The        *)
(* non-ASCII characters of the sources are written by their Unicode names: *)
(* "SUPERSCRIPT_TWO" (U+00B2), "NOT_SIGN" (U+00AC), "LESS_EQUAL" (U+2264), *)
(* "BULLET" (U+2022), "SINGLE_LOW_9_QUOTE" (U+201A), "A_DIAERESIS"         *)
(* (U+00C4), "CENT_SIGN" (U+00A2).                                         *)
(***************************************************************************)
EXTENDS Integers, Sequences, FiniteSets, TLC

VARIABLES file, arg, op, ret, currentSessionId, tabs, page, cycles

vars == <<file, arg, op, ret, currentSessionId, tabs, page, cycles>>

\* The state of the page and of the analyzer object, which the calls of the
\* pure functions leave alone.
pageVars == <<currentSessionId, tabs, page, cycles>>

\* The two source files: "plain" is src/unnamed/part_000, "hacker" is
\* src/app/static/js/analysis.js.
Files == {"plain", "hacker"}

(***************************************************************************)
(* JavaScript values                                                       *)
(***************************************************************************)
JSNull == [type |-> "null"]

JSUndefined == [type |-> "undefined"]

Str(chars) == [type |-> "string", chars |-> chars]

Num(n) == [type |-> "number", num |-> n]

Bool(b) == [type |-> "boolean", val |-> b]

\* The object literal {time: ..., space: ...}; an absent property is undefined.
Analysis(time, space) == [type |-> "object", time |-> time, space |-> space]

\* Mutant of ToBoolean: the empty string counts as truthy.
ToBoolean_emptyStringTruthy(v) ==
    CASE v.type = "string" -> TRUE
      [] v.type = "number" -> v.num # 0
      [] v.type = "boolean" -> v.val
      [] v.type \in {"null", "undefined"} -> FALSE
      [] OTHER -> TRUE

\* JavaScript truthiness, as used by `!x` and `x || y`.
ToBoolean(v) ==
    CASE v.type = "string" -> v.chars # <<>>
      [] v.type = "number" -> v.num # 0
      [] v.type = "boolean" -> v.val
      [] v.type \in {"null", "undefined"} -> FALSE
      [] OTHER -> TRUE

\* a || b
Or(a, b) == IF ToBoolean(a) THEN a ELSE b

(***************************************************************************)
(* String primitives                                                       *)
(***************************************************************************)
UpperCase == <<"A", "B", "C", "D", "E", "F", "G", "H", "I", "J", "K", "L", "M",
               "N", "O", "P", "Q", "R", "S", "T", "U", "V", "W", "X", "Y", "Z">>

LowerCase == <<"a", "b", "c", "d", "e", "f", "g", "h", "i", "j", "k", "l", "m",
               "n", "o", "p", "q", "r", "s", "t", "u", "v", "w", "x", "y", "z">>

LowerChar(ch) ==
    IF \E i \in 1..Len(UpperCase) : UpperCase[i] = ch
    THEN LowerCase[CHOOSE i \in 1..Len(UpperCase) : UpperCase[i] = ch]
    ELSE ch

\* String.prototype.toLowerCase
toLowerCase(s) == [i \in 1..Len(s) |-> LowerChar(s[i])]

\* String.prototype.includes
includes(s, sub) ==
    \E i \in 1..(Len(s) - Len(sub) + 1) : SubSeq(s, i, i + Len(sub) - 1) = sub

\* The regular-expression class \s, on the characters of the model.
IsWhitespace(ch) == ch \in {" ", "\n", "\t", "\r"}

Min(S) == CHOOSE m \in S : \A n \in S : m <= n

(***************************************************************************)
(* The recognized tokens: the keys of the lookup tables                    *)
(***************************************************************************)
O_1 == <<"O", "(", "1", ")">>

O_log_n == <<"O", "(", "l", "o", "g", " ", "n", ")">>

O_n == <<"O", "(", "n", ")">>

O_n_log_n == <<"O", "(", "n", " ", "l", "o", "g", " ", "n", ")">>

\* 'O(n²)' as src/unnamed/part_000 spells it
O_n_sup2 == <<"O", "(", "n", "SUPERSCRIPT_TWO", ")">>

\* The same key as src/app/static/js/analysis.js spells it: the two bytes of
\* U+00B2 read as two characters.
O_n_mojibake == <<"O", "(", "n", "NOT_SIGN", "LESS_EQUAL", ")">>

O_n_pow2 == <<"O", "(", "n", "^", "2", ")">>

O_2_pow_n == <<"O", "(", "2", "^", "n", ")">>

\* The key a file's tables use for the squared-glyph variant.
SquaredKey(f) == IF f = "plain" THEN O_n_sup2 ELSE O_n_mojibake

\* An object literal used as a lookup table: its own keys, in source order.
Entry(key, val) == [key |-> key, val |-> val]

\* table[key]: the value of the own property, undefined when there is none.
Lookup(table, key) ==
    IF key.type = "string" /\ \E i \in 1..Len(table) : table[i].key = key.chars
    THEN table[CHOOSE i \in 1..Len(table) : table[i].key = key.chars].val
    ELSE JSUndefined

(***************************************************************************)
(* getComplexityColor                                                      *)
(***************************************************************************)
\* The colour literals of getComplexityColor, by rule.
ComplexityColors(f) ==
    IF f = "plain"
    THEN [one     |-> Str(<<"#", "0", "0", "C", "8", "5", "1">>),
          logn    |-> Str(<<"#", "3", "3", "b", "5", "e", "5">>),
          nlogn   |-> Str(<<"#", "F", "F", "8", "8", "0", "0">>),
          squared |-> Str(<<"#", "F", "F", "4", "4", "4", "4">>),
          exp     |-> Str(<<"#", "F", "F", "1", "7", "4", "4">>),
          n       |-> Str(<<"#", "F", "F", "A", "5", "0", "0">>),
          default |-> Str(<<"#", "F", "F", "4", "4", "4", "4">>)]
    ELSE [one     |-> Str(<<"#", "2", "E", "D", "5", "7", "3">>),
          logn    |-> Str(<<"#", "4", "0", "E", "0", "D", "0">>),
          nlogn   |-> Str(<<"#", "F", "F", "A", "7", "2", "6">>),
          squared |-> Str(<<"#", "F", "F", "4", "7", "5", "7">>),
          exp     |-> Str(<<"#", "F", "F", "1", "7", "4", "4">>),
          n       |-> Str(<<"#", "0", "0", "B", "F", "F", "F">>),
          default |-> Str(<<"#", "F", "F", "4", "7", "5", "7">>)]

\* The squared-glyph substring rule 4 tests for, as each file spells it.
SquaredGlyph(f) == IF f = "plain" THEN <<"n", "SUPERSCRIPT_TWO">> ELSE <<"n", "NOT_SIGN", "LESS_EQUAL">>

\* String(complexity), for the values the model passes.
StringOf(v) ==
    CASE v.type = "string" -> v.chars
      [] v.type = "null" -> <<"n", "u", "l", "l">>
      [] OTHER -> <<"u", "n", "d", "e", "f", "i", "n", "e", "d">>

\* Mutant of getComplexityColor: the bare "n" test runs before the specific ones.
getComplexityColor_bareNFirst(f, complexity) ==
    LET c == toLowerCase(StringOf(complexity))
        colors == ComplexityColors(f)
    IN  IF includes(c, <<"1">>) THEN colors.one
        ELSE IF includes(c, <<"n">>) THEN colors.n
        ELSE IF includes(c, <<"l", "o", "g", " ", "n">>) THEN colors.logn
        ELSE IF includes(c, <<"n", " ", "l", "o", "g", " ", "n">>) THEN colors.nlogn
        ELSE IF includes(c, <<"n", "^", "2">>) \/ includes(c, SquaredGlyph(f))
             THEN colors.squared
        ELSE IF includes(c, <<"2", "^", "n">>) THEN colors.exp
        ELSE colors.default

getComplexityColor(f, complexity) ==
    LET c == toLowerCase(StringOf(complexity))
        colors == ComplexityColors(f)
    IN  IF includes(c, <<"1">>) THEN colors.one
        ELSE IF includes(c, <<"l", "o", "g", " ", "n">>) THEN colors.logn
        ELSE IF includes(c, <<"n", " ", "l", "o", "g", " ", "n">>) THEN colors.nlogn
        ELSE IF includes(c, <<"n", "^", "2">>) \/ includes(c, SquaredGlyph(f))
             THEN colors.squared
        ELSE IF includes(c, <<"2", "^", "n">>) THEN colors.exp
        ELSE IF includes(c, <<"n">>) THEN colors.n
        ELSE colors.default

(***************************************************************************)
(* calculatePerformanceScore, calculateComplexityScore, getComplexityLevel *)
(***************************************************************************)
performanceScores(f) ==
    << Entry(O_1, Num(95)), Entry(O_log_n, Num(85)), Entry(O_n, Num(70)),
       Entry(O_n_log_n, Num(55)), Entry(SquaredKey(f), Num(25)),
       Entry(O_n_pow2, Num(25)), Entry(O_2_pow_n, Num(5)) >>

calculatePerformanceScore(f, complexityAnalysis) ==
    IF ~ToBoolean(complexityAnalysis) THEN Num(50)
    ELSE LET timeComplexity == Or(complexityAnalysis.time, Str(O_n))
         IN  Or(Lookup(performanceScores(f), timeComplexity), Num(50))

complexityScores(f) ==
    << Entry(O_1, Num(10)), Entry(O_log_n, Num(8)), Entry(O_n, Num(6)),
       Entry(O_n_log_n, Num(4)), Entry(SquaredKey(f), Num(2)),
       Entry(O_n_pow2, Num(2)), Entry(O_2_pow_n, Num(1)) >>

\* const timeScore = complexityScores[timeComplexity] || 5
timeScore(f, complexityAnalysis) ==
    LET timeComplexity == Or(complexityAnalysis.time, Str(O_n))
    IN  Or(Lookup(complexityScores(f), timeComplexity), Num(5))

\* const spaceScore = complexityScores[spaceComplexity] || 8
spaceScore(f, complexityAnalysis) ==
    LET spaceComplexity == Or(complexityAnalysis.space, Str(O_1))
    IN  Or(Lookup(complexityScores(f), spaceComplexity), Num(8))

\* Mutant of MathRound: truncation (Math.floor) instead of rounding.
MathRound_floor(numerator, denominator) == numerator \div denominator

\* Math.round of the rational numerator/denominator (denominator > 0):
\* floor(x + 1/2).
MathRound(numerator, denominator) ==
    (2 * numerator + denominator) \div (2 * denominator)

calculateComplexityScore(f, complexityAnalysis) ==
    IF ~ToBoolean(complexityAnalysis) THEN Num(5)
    ELSE Num(MathRound(timeScore(f, complexityAnalysis).num
                       + spaceScore(f, complexityAnalysis).num, 2))

levels(f) ==
    IF f = "plain"
    THEN << Entry(O_1, Str(<<"E", "x", "c", "e", "l", "l", "e", "n", "t">>)),
            Entry(O_log_n, Str(<<"G", "o", "o", "d">>)),
            Entry(O_n, Str(<<"F", "a", "i", "r">>)),
            Entry(O_n_log_n, Str(<<"M", "o", "d", "e", "r", "a", "t", "e">>)),
            Entry(O_n_sup2, Str(<<"P", "o", "o", "r">>)),
            Entry(O_n_pow2, Str(<<"P", "o", "o", "r">>)),
            Entry(O_2_pow_n, Str(<<"E", "x", "p", "o", "n", "e", "n", "t", "i", "a", "l">>)) >>
    ELSE << Entry(O_1, Str(<<"O", "P", "T", "I", "M", "A", "L">>)),
            Entry(O_log_n, Str(<<"E", "X", "C", "E", "L", "L", "E", "N", "T">>)),
            Entry(O_n, Str(<<"G", "O", "O", "D">>)),
            Entry(O_n_log_n, Str(<<"M", "O", "D", "E", "R", "A", "T", "E">>)),
            Entry(O_n_mojibake, Str(<<"P", "O", "O", "R">>)),
            Entry(O_n_pow2, Str(<<"P", "O", "O", "R">>)),
            Entry(O_2_pow_n, Str(<<"C", "R", "I", "T", "I", "C", "A", "L">>)) >>

\* The default label of getComplexityLevel.
UnknownLevel(f) ==
    IF f = "plain" THEN Str(<<"U", "n", "k", "n", "o", "w", "n">>)
    ELSE Str(<<"U", "N", "K", "N", "O", "W", "N">>)

getComplexityLevel(f, complexity) == Or(Lookup(levels(f), complexity), UnknownLevel(f))

(***************************************************************************)
(* parseComplexityFromAgent                                                *)
(***************************************************************************)
\* The label of /Time Complexity:\s*([O\(][^)]*\))/i
LabelTime ==
    <<"T", "i", "m", "e", " ", "C", "o", "m", "p", "l", "e", "x", "i",
       "t", "y", ":">>

\* The label of /Space Complexity:\s*([O\(][^)]*\))/i
LabelSpace ==
    <<"S", "p", "a", "c", "e", " ", "C", "o", "m", "p", "l", "e", "x",
       "i", "t", "y", ":">>

\* The label, matched at position i under the i flag.
LabelAt(text, i, label) ==
    /\ i + Len(label) - 1 <= Len(text)
    /\ \A j \in 1..Len(label) : LowerChar(text[i + j - 1]) = LowerChar(label[j])

\* \s* is greedy, and what follows it is no whitespace: the position it ends at.
AfterWhitespace(text, k) ==
    Min({m \in k..(Len(text) + 1) : m = Len(text) + 1 \/ ~IsWhitespace(text[m])})

\* The character class [O\(], which under the i flag also takes "o".
ClassOpen(ch, ignoreCase) == ch \in {"O", "("} \/ (ignoreCase /\ ch = "o")

\* ([O\(][^)]*\)) tried at position k: the position of the ")" that ends the
\* group, 0 when the group does not match there.  [^)]* takes every character
\* up to the first ")" after position k, line ends included.
GroupEnd(text, k, ignoreCase) ==
    IF k > Len(text) \/ ~ClassOpen(text[k], ignoreCase) THEN 0
    ELSE LET closing == {m \in (k + 1)..Len(text) : text[m] = ")"}
         IN  IF closing = {} THEN 0 ELSE Min(closing)

\* Mutant of Capture: the matched text is normalized to lower case.
Capture_lowercased(text, from, to) == toLowerCase(SubSeq(text, from, to))

\* match[1]: the text of the capture group.
Capture(text, from, to) == SubSeq(text, from, to)

\* A match result: an array, of which the code reads element 1.
MatchResult(group1) == [type |-> "array", group1 |-> Str(group1)]

\* The positions at which /<label>\s*([O\(][^)]*\))/i matches.
LabelledMatches(text, label) ==
    {i \in 1..Len(text) :
        /\ LabelAt(text, i, label)
        /\ GroupEnd(text, AfterWhitespace(text, i + Len(label)), TRUE) # 0}

\* text.match(/<label>\s*([O\(][^)]*\))/i): the leftmost match, or null.
matchLabelled(text, label) ==
    IF LabelledMatches(text, label) = {} THEN JSNull
    ELSE LET i == Min(LabelledMatches(text, label))
             k == AfterWhitespace(text, i + Len(label))
         IN  MatchResult(Capture(text, k, GroupEnd(text, k, TRUE)))

\* text.match(/([O\(][^)]*\))/): the leftmost match, or null.
matchFallback(text) ==
    LET starts == {k \in 1..Len(text) : GroupEnd(text, k, FALSE) # 0}
    IN  IF starts = {} THEN JSNull
        ELSE MatchResult(Capture(text, Min(starts), GroupEnd(text, Min(starts), FALSE)))

parseComplexityFromAgent(f, complexityText) ==
    IF ~ToBoolean(complexityText) \/ complexityText.type # "string" THEN JSNull
    ELSE LET text == complexityText.chars
             timeMatch == Or(matchLabelled(text, LabelTime), matchFallback(text))
             spaceMatch == matchLabelled(text, LabelSpace)
             timeComplexity == IF ToBoolean(timeMatch) THEN timeMatch.group1 ELSE Str(O_n)
             spaceComplexity == IF ToBoolean(spaceMatch) THEN spaceMatch.group1 ELSE Str(O_1)
         IN  [type |-> "object",
              time_complexity |-> timeComplexity,
              time_color |-> getComplexityColor(f, timeComplexity),
              space_complexity |-> spaceComplexity,
              space_color |-> getComplexityColor(f, spaceComplexity),
              performance_score |->
                  calculatePerformanceScore(f, Analysis(timeComplexity, JSUndefined)),
              score |->
                  calculateComplexityScore(f, Analysis(timeComplexity, spaceComplexity)),
              full_analysis |-> complexityText]

(***************************************************************************)
(* Inputs                                                                  *)
(***************************************************************************)
\* Strings handed to the token functions: the recognized tokens, both
\* spellings of the squared glyph, and unrecognized strings.
Tokens ==
    { O_1, O_log_n, O_n, O_n_log_n, O_n_sup2, O_n_mojibake, O_n_pow2, O_2_pow_n,
      <<"O", "(", "n", "^", "3", ")">>,
      <<"O", "(", "N", ")">>,
      <<"O", "(", "N", " ", "L", "O", "G", " ", "N", ")">>,
      <<"O", "(", "m", " ", "+", " ", "n", " ", "l", "o", "g", " ", "n",
       ")">>,
      <<"O", "(", "n", "!", ")">>,
      <<"o", "(", "n", ")">>,
      <<"(", "x", ")">>,
      <<>> }

\* The pieces complexity texts are put together from.
Chunks ==
    { <<"T", "i", "m", "e", " ", "C", "o", "m", "p", "l", "e", "x", "i",
       "t", "y", ":">>,
      <<"t", "i", "m", "e", " ", "c", "o", "m", "p", "l", "e", "x", "i",
       "t", "y", ":", " ">>,
      <<"S", "P", "A", "C", "E", " ", "C", "O", "M", "P", "L", "E", "X",
       "I", "T", "Y", ":", " ">>,
      O_n, O_n_log_n,
      <<"(", "x", ")">> }

\* The most pieces in a generated text.
MaxChunks == 4

RECURSIVE Flatten(_)
Flatten(pieces) ==
    IF pieces = <<>> THEN <<>> ELSE Head(pieces) \o Flatten(Tail(pieces))

\* Texts the specification quotes, a label that no expression follows, and
\* texts without a closing parenthesis.
ExampleTexts ==
    { <<"T", "i", "m", "e", " ", "C", "o", "m", "p", "l", "e", "x", "i", "t", "y", ":",
        " ", "i", "s", " ", "O", "(", "n", " ", "l", "o", "g", " ", "n", ")">>,
      <<"T", "i", "m", "e", " ", "C", "o", "m", "p", "l", "e", "x", "i",
       "t", "y", ":", " ", "O", "(", "n", " ", "l", "o", "g", " ", "n",
       ")", "\n", "S", "p", "a", "c", "e", " ", "C", "o", "m", "p", "l",
       "e", "x", "i", "t", "y", ":", " ", "O", "(", "n", ")">>,
      <<"n", "o", " ", "e", "x", "p", "l", "i", "c", "i", "t", " ", "l",
       "a", "b", "e", "l", "s", " ", "b", "u", "t", " ", "O", "(", "l",
       "o", "g", " ", "n", ")", " ", "a", "p", "p", "e", "a", "r", "s">>,
      <<"r", "u", "n", "s", " ", "i", "n", " ", "l", "i", "n", "e", "a",
       "r", " ", "t", "i", "m", "e">>,
      <<"T", "i", "m", "e", " ", "C", "o", "m", "p", "l", "e", "x", "i",
       "t", "y", ":", " ", "O", "(", "n">> }

Texts ==
    {Flatten(pieces) : pieces \in UNION {[1..n -> Chunks] : n \in 0..MaxChunks}}
        \cup ExampleTexts

\* A value of the response's complexity_analysis field: a string, or what a
\* JSON body may carry instead of one.
FieldValues ==
    {Str(t) : t \in Texts \cup Tokens}
        \cup {JSNull, JSUndefined, Num(0), Num(7), Analysis(JSUndefined, JSUndefined)}

\* The arguments of calculatePerformanceScore and calculateComplexityScore.
AnalysisValues ==
    {Analysis(Str(t), s) : t \in Tokens, s \in {Str(u) : u \in Tokens} \cup {JSUndefined}}

(***************************************************************************)
(* The page and the analyzer object                                        *)
(***************************************************************************)
\* The page before the first submit: no tab painted, no overlay shown, the
\* submit button enabled.
InitialTabs ==
    [complexity |-> [kind |-> "initial"], documentation |-> [kind |-> "initial"],
     refactoring |-> [kind |-> "initial"], structure |-> [kind |-> "initial"],
     improvements |-> [kind |-> "initial"]]

\* The state the constructor leaves: currentSessionId = null, nothing submitted.
Constructed(hidden) ==
    /\ currentSessionId = JSNull
    /\ tabs = InitialTabs
    /\ page = [loadingOverlayHidden |-> TRUE, resultsHidden |-> hidden,
               submitDisabled |-> FALSE]
    /\ cycles = <<>>

(***************************************************************************)
(* The specification: an input is drawn, and one function is applied to it *)
(***************************************************************************)
Init ==
    /\ file \in Files
    /\ arg \in FieldValues \cup AnalysisValues
    /\ op = "none"
    /\ ret = JSUndefined
    /\ Constructed(TRUE)

\* The strings the token functions are applied to.
IsToken(v) == v.type = "string" /\ v.chars \in Tokens

CallGetComplexityColor ==
    /\ op = "none"
    /\ IsToken(arg)
    /\ op' = "getComplexityColor"
    /\ ret' = getComplexityColor(file, arg)
    /\ UNCHANGED <<file, arg>>
    /\ UNCHANGED pageVars

CallGetComplexityLevel ==
    /\ op = "none"
    /\ IsToken(arg)
    /\ op' = "getComplexityLevel"
    /\ ret' = getComplexityLevel(file, arg)
    /\ UNCHANGED <<file, arg>>
    /\ UNCHANGED pageVars

CallCalculatePerformanceScore ==
    /\ op = "none"
    /\ arg.type = "object"
    /\ op' = "calculatePerformanceScore"
    /\ ret' = calculatePerformanceScore(file, arg)
    /\ UNCHANGED <<file, arg>>
    /\ UNCHANGED pageVars

CallCalculateComplexityScore ==
    /\ op = "none"
    /\ arg.type = "object"
    /\ op' = "calculateComplexityScore"
    /\ ret' = calculateComplexityScore(file, arg)
    /\ UNCHANGED <<file, arg>>
    /\ UNCHANGED pageVars

CallParseComplexityFromAgent ==
    /\ op = "none"
    /\ arg \in FieldValues
    /\ op' = "parseComplexityFromAgent"
    /\ ret' = parseComplexityFromAgent(file, arg)
    /\ UNCHANGED <<file, arg>>
    /\ UNCHANGED pageVars

Next ==
    \/ CallGetComplexityColor
    \/ CallGetComplexityLevel
    \/ CallCalculatePerformanceScore
    \/ CallCalculateComplexityScore
    \/ CallParseComplexityFromAgent

Spec == Init /\ [][Next]_vars

(***************************************************************************)
(* parseRefactoringSuggestionsFromAgent                                    *)
(***************************************************************************)
\* An array value, as the list the parser returns.
List(items) == [type |-> "array", items |-> items]

\* A call that ends by throwing instead of returning.
Thrown(error) == [type |-> "throw", error |-> error]

Max(S) == CHOOSE m \in S : \A n \in S : n <= m

\* Mutant of trim: nothing is removed.
trim_nothing(s) == s

\* String.prototype.trim
trim(s) ==
    LET kept == {i \in 1..Len(s) : ~IsWhitespace(s[i])}
    IN  IF kept = {} THEN <<>> ELSE SubSeq(s, Min(kept), Max(kept))

\* s.split(/\n+/): the pieces between the maximal runs of line ends.
RECURSIVE splitLines(_)
splitLines(s) ==
    IF \A i \in 1..Len(s) : s[i] # "\n" THEN <<s>>
    ELSE LET i == Min({k \in 1..Len(s) : s[k] = "\n"})
             j == Min({k \in (i + 1)..(Len(s) + 1) : k = Len(s) + 1 \/ s[k] # "\n"})
         IN  <<SubSeq(s, 1, i - 1)>> \o splitLines(SubSeq(s, j, Len(s)))

\* /^word/i
StartsWithIgnoreCase(line, word) ==
    /\ Len(word) <= Len(line)
    /\ toLowerCase(SubSeq(line, 1, Len(word))) = toLowerCase(word)

\* line.match(/^(REFACTORING|SUGGESTIONS?|={3,}|-{3,})/i): the pattern is
\* anchored at the start of the line only.
IsHeaderLine(line) ==
    \/ StartsWithIgnoreCase(line, <<"R", "E", "F", "A", "C", "T", "O", "R",
                                    "I", "N", "G">>)
    \/ StartsWithIgnoreCase(line, <<"S", "U", "G", "G", "E", "S", "T", "I",
                                    "O", "N">>)
    \/ StartsWithIgnoreCase(line, <<"=", "=", "=">>)
    \/ StartsWithIgnoreCase(line, <<"-", "-", "-">>)

IsDigit(ch) == ch \in {"0", "1", "2", "3", "4", "5", "6", "7", "8", "9"}

\* The bullet glyph of the class [\d\.\-\*\+•\s]: U+2022 in part_000; in
\* analysis.js its three bytes read as three characters.
BulletGlyphs(f) ==
    IF f = "plain" THEN {"BULLET"}
    ELSE {"SINGLE_LOW_9_QUOTE", "A_DIAERESIS", "CENT_SIGN"}

\* The character class [\d\.\-\*\+•\s]
IsBulletChar(f, ch) ==
    \/ IsDigit(ch)
    \/ ch \in {".", "-", "*", "+"}
    \/ ch \in BulletGlyphs(f)
    \/ IsWhitespace(ch)

\* line.replace(/^[\d\.\-\*\+•\s]+/, '').trim()
cleanLine(f, line) ==
    LET rest == {i \in 1..(Len(line) + 1) : i = Len(line) + 1 \/ ~IsBulletChar(f, line[i])}
    IN  trim(SubSeq(line, Min(rest), Len(line)))

\* The decimal digits of a natural number, as template literals print it.
RECURSIVE DecimalString(_)
DecimalString(n) ==
    LET digit == <<"0", "1", "2", "3", "4", "5", "6", "7", "8", "9">>[(n % 10) + 1]
    IN  IF n < 10 THEN <<digit>> ELSE DecimalString(n \div 10) \o <<digit>>

\* Mutant of Suggestion: the third suggestion is High too (index <= 2).
Suggestion_thirdIsHigh(f, line, index) ==
    IF f = "plain"
    THEN [id |-> Num(index),
          title |-> Str(<<"R", "e", "f", "a", "c", "t", "o", "r", "i", "n",
                          "g", " ", "S", "u", "g", "g", "e", "s", "t", "i",
                          "o", "n", " ">> \o DecimalString(index + 1)),
          description |-> Str(cleanLine(f, line)),
          priority |-> IF index <= 2 THEN Str(<<"H", "i", "g", "h">>) ELSE Str(<<
                                                                                 "M",
                                                                                 "e",
                                                                                 "d",
                                                                                 "i",
                                                                                 "u",
                                                                                 "m">>),
          category |-> Str(<<"R", "e", "f", "a", "c", "t", "o", "r", "i",
                             "n", "g">>),
          color |-> Str(<<"e", "l", "e", "c", "t", "r", "i", "c", "-", "b",
                          "l", "u", "e">>)]
    ELSE [id |-> Num(index),
          title |-> Str(<<"[", "O", "P", "T", "I", "M", "I", "Z", "A", "T",
                          "I", "O", "N", " ", "#">> \o DecimalString(index + 1) \o <<"]">>),
          description |-> Str(cleanLine(f, line)),
          priority |-> IF index <= 2 THEN Str(<<"H", "I", "G", "H">>) ELSE Str(<<
                                                                                 "M",
                                                                                 "E",
                                                                                 "D",
                                                                                 "I",
                                                                                 "U",
                                                                                 "M">>),
          category |-> Str(<<"R", "E", "F", "A", "C", "T", "O", "R">>),
          color |-> getComplexityColor(f, Str(O_1))]

\* The record the map callback builds from a line and its index.
Suggestion(f, line, index) ==
    IF f = "plain"
    THEN [id |-> Num(index),
          title |-> Str(<<"R", "e", "f", "a", "c", "t", "o", "r", "i", "n",
                          "g", " ", "S", "u", "g", "g", "e", "s", "t", "i",
                          "o", "n", " ">> \o DecimalString(index + 1)),
          description |-> Str(cleanLine(f, line)),
          priority |-> IF index < 2 THEN Str(<<"H", "i", "g", "h">>) ELSE Str(<<
                                                                                "M",
                                                                                "e",
                                                                                "d",
                                                                                "i",
                                                                                "u",
                                                                                "m">>),
          category |-> Str(<<"R", "e", "f", "a", "c", "t", "o", "r", "i",
                             "n", "g">>),
          color |-> Str(<<"e", "l", "e", "c", "t", "r", "i", "c", "-", "b",
                          "l", "u", "e">>)]
    ELSE [id |-> Num(index),
          title |-> Str(<<"[", "O", "P", "T", "I", "M", "I", "Z", "A", "T",
                          "I", "O", "N", " ", "#">> \o DecimalString(index + 1) \o <<"]">>),
          description |-> Str(cleanLine(f, line)),
          priority |-> IF index < 2 THEN Str(<<"H", "I", "G", "H">>) ELSE Str(<<
                                                                                "M",
                                                                                "E",
                                                                                "D",
                                                                                "I",
                                                                                "U",
                                                                                "M">>),
          category |-> Str(<<"R", "E", "F", "A", "C", "T", "O", "R">>),
          color |-> getComplexityColor(f, Str(O_1))]

\* The marker of refactoringText.includes("No refactoring suggestions")
NoSuggestionsMarker ==
    <<"N", "o", " ", "r", "e", "f", "a", "c", "t", "o", "r", "i", "n", "g",
      " ", "s", "u", "g", "g", "e", "s", "t", "i", "o", "n", "s">>

IsNonEmptyLine(line) == Len(line) > 0

IsNotHeaderLine(line) == ~IsHeaderLine(line)

\* Mutant of suggestionLines: the header and separator lines are kept.
suggestionLines_keepHeaders(text) ==
    LET pieces == splitLines(text)
        trimmed == [i \in 1..Len(pieces) |-> trim(pieces[i])]
    IN  SelectSeq(trimmed, IsNonEmptyLine)

\* text.split(/\n+/).map(trim).filter(non-empty).filter(not a header)
suggestionLines(text) ==
    LET pieces == splitLines(text)
        trimmed == [i \in 1..Len(pieces) |-> trim(pieces[i])]
    IN  SelectSeq(SelectSeq(trimmed, IsNonEmptyLine), IsNotHeaderLine)

\* A number, a boolean or a plain object has no includes method; an array has
\* includes (element equality) but no split: both calls end in a TypeError.
parseRefactoringSuggestionsFromAgent(f, refactoringText) ==
    IF ~ToBoolean(refactoringText) THEN List(<<>>)
    ELSE IF refactoringText.type = "string"
    THEN IF includes(refactoringText.chars, NoSuggestionsMarker) THEN List(<<>>)
         ELSE LET lines == suggestionLines(refactoringText.chars)
              IN  List([i \in 1..Len(lines) |-> Suggestion(f, lines[i], i - 1)])
    ELSE IF refactoringText.type = "array"
    THEN IF \E i \in 1..Len(refactoringText.items) :
                refactoringText.items[i] = Str(NoSuggestionsMarker)
         THEN List(<<>>)
         ELSE Thrown("TypeError")
    ELSE Thrown("TypeError")


(***************************************************************************)
(* Inputs of the suggestion parser                                         *)
(***************************************************************************)
\* The lines suggestion texts are put together from: numbered and bulleted
\* suggestions, headers, separators, a blank line and the marker phrase.
SuggestionLines ==
    { <<"1", ".", " ", "E", "x", "t", "r", "a", "c", "t", " ", "m", "e",
        "t", "h", "o", "d">>,
      <<"2", ".", " ", "R", "e", "n", "a", "m", "e", " ", "v", "a", "r",
        "i", "a", "b", "l", "e">>,
      <<"3", ".", " ", "R", "e", "m", "o", "v", "e", " ", "d", "e", "a",
        "d", " ", "c", "o", "d", "e">>,
      <<"BULLET", " ", "I", "n", "l", "i", "n", "e", " ", "t", "e", "m", "p">>,
      <<" ", " ", "*", " ", "U", "s", "e", " ", "m", "a", "p", " ", " ">>,
      <<"R", "E", "F", "A", "C", "T", "O", "R", "I", "N", "G", " ", "S",
        "U", "G", "G", "E", "S", "T", "I", "O", "N", "S">>,
      <<"s", "u", "g", "g", "e", "s", "t", "i", "o", "n", "s", ":">>,
      <<"=", "=", "=", "=">>,
      <<"-", "-", "-", " ", "E", "x", "t", "r", "a", "c", "t", " ", "m",
        "e", "t", "h", "o", "d">>,
      <<"1", ".">>,
      <<>>,
      <<"N", "o", " ", "r", "e", "f", "a", "c", "t", "o", "r", "i", "n",
        "g", " ", "s", "u", "g", "g", "e", "s", "t", "i", "o", "n", "s",
        " ", "f", "o", "u", "n", "d">> }

\* The text "1. Extract method\n2. Rename variable\n3. Remove dead code".
ThreeNumberedSuggestions ==
    <<"1", ".", " ", "E", "x", "t", "r", "a", "c", "t", " ", "m", "e", "t",
      "h", "o", "d", "\n", "2", ".", " ", "R", "e", "n", "a", "m", "e",
      " ", "v", "a", "r", "i", "a", "b", "l", "e", "\n", "3", ".", " ",
      "R", "e", "m", "o", "v", "e", " ", "d", "e", "a", "d", " ", "c", "o",
      "d", "e">>

\* The most lines in a generated suggestion text.
MaxLines == 3

\* lines.join('\n')
RECURSIVE JoinLines(_)
JoinLines(lines) ==
    IF Len(lines) <= 1 THEN Flatten(lines)
    ELSE Head(lines) \o <<"\n">> \o JoinLines(Tail(lines))

SuggestionTexts ==
    {JoinLines(lines) : lines \in UNION {[1..n -> SuggestionLines] : n \in 0..MaxLines}}

\* A value of the response's refactoring_suggestions field: a string, or what
\* a JSON body may carry instead of one.
SuggestionValues ==
    {Str(t) : t \in SuggestionTexts}
        \cup { JSNull, JSUndefined, Num(0), Num(5), Bool(TRUE), Bool(FALSE),
               Analysis(JSUndefined, JSUndefined),
               List(<<Str(<<"E", "x", "t", "r", "a", "c", "t", " ", "m",
                            "e", "t", "h", "o", "d">>)>>),
               List(<<Str(NoSuggestionsMarker)>>) }

(***************************************************************************)
(* The specification of the suggestion parser: a field value is drawn and  *)
(* the parser is applied to it                                             *)
(***************************************************************************)
InitSuggestions ==
    /\ file \in Files
    /\ arg \in SuggestionValues
    /\ op = "none"
    /\ ret = JSUndefined
    /\ Constructed(TRUE)

CallParseRefactoringSuggestionsFromAgent ==
    /\ op = "none"
    /\ arg \in SuggestionValues
    /\ op' = "parseRefactoringSuggestionsFromAgent"
    /\ ret' = parseRefactoringSuggestionsFromAgent(file, arg)
    /\ UNCHANGED <<file, arg>>
    /\ UNCHANGED pageVars

NextSuggestions == CallParseRefactoringSuggestionsFromAgent

SpecSuggestions == InitSuggestions /\ [][NextSuggestions]_vars

(***************************************************************************)
(* countFunctions: eight regular expressions, each matched globally.       *)
(*                                                                         *)
(* A matcher takes the string and the position of the next character and   *)
(* gives the position after the match, or 0 when there is no match.  In    *)
(* every pattern a quantified class is followed by an atom outside the     *)
(* class, so giving back characters of a run never finds a match the       *)
(* longest run does not; the one choice left is the optional group of the  *)
(* Java patterns.                                                          *)
(***************************************************************************)
\* A character class: its characters, and whether it is negated.
InClass(ch, class) == (ch \in class.chars) # class.negated

\* \w
WordClass ==
    [chars |-> {LowerCase[i] : i \in 1..Len(LowerCase)}
                 \cup {UpperCase[i] : i \in 1..Len(UpperCase)}
                 \cup {"0", "1", "2", "3", "4", "5", "6", "7", "8", "9", "_"},
     negated |-> FALSE]

\* \s, on the characters of the model
SpaceClass == [chars |-> {" ", "\n", "\t", "\r"}, negated |-> FALSE]

\* [^)]
NotCloseParen == [chars |-> {")"}, negated |-> TRUE]

\* The literal characters of a pattern
Literal(s, i, word) ==
    IF /\ i # 0
       /\ i + Len(word) - 1 <= Len(s)
       /\ \A j \in 1..Len(word) : s[i + j - 1] = word[j]
    THEN i + Len(word) ELSE 0

\* The end of the longest run of the class from position i on
RECURSIVE RunEnd(_, _, _)
RunEnd(s, i, class) ==
    IF i > Len(s) \/ ~InClass(s[i], class) THEN i ELSE RunEnd(s, i + 1, class)

\* class*
Star(s, i, class) == IF i = 0 THEN 0 ELSE RunEnd(s, i, class)

\* class+
Plus(s, i, class) ==
    IF i = 0 THEN 0
    ELSE IF i <= Len(s) /\ InClass(s[i], class) THEN RunEnd(s, i + 1, class) ELSE 0

\* keyword\s+\w+
Keyword(s, i, word) == Plus(s, Plus(s, Literal(s, i, word), SpaceClass), WordClass)

\* \w+\s+\w+\s*\(
Signature(s, i) ==
    Literal(s, Star(s, Plus(s, Plus(s, Plus(s, i, WordClass), SpaceClass), WordClass),
                    SpaceClass), <<"(">>)

\* modifier\s+(static\s+)?\w+\s+\w+\s*\( : the group is tried first, and the
\* match without the group is tried when the match with it fails.
Method(s, i, modifier) ==
    LET afterModifier == Plus(s, Literal(s, i, modifier), SpaceClass)
        withGroup == Signature(s, Plus(s, Literal(s, afterModifier, <<"s", "t", "a", "t", "i", "c">>),
                                       SpaceClass))
    IN  IF withGroup # 0 THEN withGroup ELSE Signature(s, afterModifier)

\* The eight patterns, in the order of the array.
functionPatterns == 1..8

\* The position after the match of pattern k that starts at position i.
MatchAt(k, s, i) ==
    CASE k = 1 -> Keyword(s, i, <<"f", "u", "n", "c", "t", "i", "o", "n">>)
      [] k = 2 -> Literal(s, Star(s, Literal(s, Star(s, Keyword(s, i, <<"c", "o", "n", "s", "t">>),
                                                    SpaceClass), <<"=">>),
                                  SpaceClass), <<"(">>)
      [] k = 3 -> Keyword(s, i, <<"d", "e", "f">>)
      [] k = 4 -> Method(s, i, <<"p", "u", "b", "l", "i", "c">>)
      [] k = 5 -> Method(s, i, <<"p", "r", "i", "v", "a", "t", "e">>)
      [] k = 6 -> Literal(s, Star(s, Keyword(s, i, <<"f", "u", "n", "c">>), SpaceClass), <<"(">>)
      [] k = 7 -> Literal(s, Star(s, Keyword(s, i, <<"f", "n">>), SpaceClass), <<"(">>)
      [] k = 8 -> Literal(s, Star(s, Literal(s, Star(s, Signature(s, i), NotCloseParen),
                                             <<")">>),
                                  SpaceClass), <<"{">>)

\* code.match(pattern) of a global pattern: the matches from position from
\* on, each search starting where the match before it ended.
RECURSIVE matchCount(_, _, _)
matchCount(s, k, from) ==
    IF from > Len(s) THEN 0
    ELSE IF MatchAt(k, s, from) # 0 THEN 1 + matchCount(s, k, MatchAt(k, s, from))
    ELSE matchCount(s, k, from + 1)

\* count after the forEach has visited the first k patterns
RECURSIVE countAfter(_, _)
countAfter(s, k) == IF k = 0 THEN 0 ELSE countAfter(s, k - 1) + matchCount(s, k, 1)

\* Mutant of countFunctions: the count without the floor.
countFunctions_noFloor(code) == Num(countAfter(code, Cardinality(functionPatterns)))

\* return Math.max(1, count);
countFunctions(code) == Num(Max({1, countAfter(code, Cardinality(functionPatterns))}))

\* Pieces of source text for the code input.
Declarations ==
    { <<"f", "u", "n", "c", "t", "i", "o", "n", " ", "f", "o", "o", "(", ")", " ",
        "{">>,
      <<"c", "o", "n", "s", "t", " ", "a", "d", "d", " ", "=", " ", "(", "a", ",",
        " ", "b", ")", " ", "=", ">">>,
      <<"d", "e", "f", " ", "f", "(", "x", ")", ":">>,
      <<"p", "u", "b", "l", "i", "c", " ", "s", "t", "a", "t", "i", "c", " ", "v",
        "o", "i", "d", " ", "m", "a", "i", "n", "(", "S", "t", "r", "i", "n", "g",
        "[", "]", " ", "a", "r", "g", "s", ")", " ", "{">>,
      <<"p", "r", "i", "v", "a", "t", "e", " ", "i", "n", "t", " ", "s", "i", "z",
        "e", "(", ")", " ", "{">>,
      <<"f", "u", "n", "c", " ", "m", "a", "i", "n", "(", ")", " ", "{">>,
      <<"f", "n", " ", "r", "u", "n", "(", "x", ":", " ", "i", "3", "2", ")", " ",
        "-", ">", " ", "i", "3", "2", " ", "{">>,
      <<"i", "n", "t", " ", "m", "a", "i", "n", "(", "v", "o", "i", "d", ")", "\n",
        "{">>,
      <<"f", "u", "n", "c", "t", "i", "o", "n", " ", "a", "(", ")", "{", "}", " ",
        "f", "u", "n", "c", "t", "i", "o", "n", " ", "b", "(", ")", "{", "}">>,
      <<"m", "y", "f", "u", "n", "c", "t", "i", "o", "n", " ", " ", "g", "o">>,
      <<"p", "u", "b", "l", "i", "c", " ", "s", "t", "a", "t", "i", "c", " ", "m",
        "a", "i", "n", "(">>,
      <<"x", " ", "=", " ", "1">> }

\* The most pieces in one code input.
MaxDeclarations == 2

\* The pieces of a code input, one after the other, a newline between them.
RECURSIVE JoinDeclarations(_)
JoinDeclarations(ds) ==
    IF ds = <<>> THEN <<>>
    ELSE IF Len(ds) = 1 THEN ds[1]
    ELSE ds[1] \o <<"\n">> \o JoinDeclarations(Tail(ds))

\* The code inputs: the empty input and up to MaxDeclarations pieces.
Codes ==
    {JoinDeclarations(ds) :
        ds \in UNION {[1..n -> Declarations] : n \in 0..MaxDeclarations}}

InitCount ==
    /\ file \in Files
    /\ arg \in {Str(code) : code \in Codes}
    /\ op = "none"
    /\ ret = JSUndefined
    /\ Constructed(TRUE)

CallCountFunctions ==
    /\ op = "none"
    /\ op' = "countFunctions"
    /\ ret' = countFunctions(arg.chars)
    /\ UNCHANGED <<file, arg>>
    /\ UNCHANGED pageVars

NextCount == CallCountFunctions

SpecCount == InitCount /\ [][NextCount]_vars

(***************************************************************************)
(* The submit cycle: handleFormSubmit, validateResponse and                *)
(* processAnalysisResults (processHackerAnalysisResults in analysis.js)    *)
(*                                                                         *)
(* A tab is modelled by the last call that painted it: the data object     *)
(* handed to its update method, or the message of its error placeholder,   *)
(* together with the index of the submit cycle that made the call.         *)
(***************************************************************************)
\* obj.name; a property a value does not have reads as undefined.
Get(obj, name) ==
    IF obj.type = "object" /\ name \in DOMAIN obj THEN obj[name] ELSE JSUndefined

\* The most submit events in a behaviour.
MaxSubmits == 2

\* The form as submitted: the code input empty, whitespace only or a program,
\* and whether an analysis option is checked.
Forms ==
    { [code |-> <<>>, hasOptions |-> TRUE],
      [code |-> <<" ", " ", "\n">>, hasOptions |-> TRUE],
      [code |-> <<"d", "e", "f", " ", "f", "(", ")", ":", "\n", " ", " ",
                  "p", "a", "s", "s">>, hasOptions |-> FALSE],
      [code |-> <<"d", "e", "f", " ", "f", "(", ")", ":", "\n", " ", " ",
                  "p", "a", "s", "s">>, hasOptions |-> TRUE] }

\* A body that is not JSON: response.json() rejects.
NotJson == [type |-> "not json"]

\* HTTP status codes: one success, one failure.
StatusOk == 200

StatusError == 500

\* A results object carrying every field, with success: true.
FullResults ==
    [type |-> "object",
     complexity_analysis |->
        Str(<<"T", "i", "m", "e", " ", "C", "o", "m", "p", "l", "e", "x",
              "i", "t", "y", ":", " ", "O", "(", "n", " ", "l", "o", "g",
              " ", "n", ")", "\n", "S", "p", "a", "c", "e", " ", "C", "o",
              "m", "p", "l", "e", "x", "i", "t", "y", ":", " ", "O", "(",
              "n", ")">>),
     documentation |-> Str(<<"S", "o", "r", "t", "s", " ", "t", "h", "e",
                             " ", "l", "i", "s", "t", ".">>),
     refactoring_suggestions |-> Str(ThreeNumberedSuggestions),
     improvement_suggestions |-> Str(<<"U", "s", "e", " ", "a", " ", "s",
                                       "e", "t", ".">>),
     analysis_id |-> Str(<<"a", "1">>),
     structure_img |-> Str(<<"/", "s", "t", "a", "t", "i", "c", "/", "s",
                             ".", "p", "n", "g">>),
     success |-> Bool(TRUE),
     error |-> JSUndefined]

\* The results object {}.
EmptyResults ==
    [type |-> "object",
     complexity_analysis |-> JSUndefined, documentation |-> JSUndefined,
     refactoring_suggestions |-> JSUndefined, improvement_suggestions |-> JSUndefined,
     analysis_id |-> JSUndefined, structure_img |-> JSUndefined,
     success |-> JSUndefined, error |-> JSUndefined]

\* What one field of the results object may carry instead of its usual text:
\* nothing, the empty string, a number, the no-documentation phrase, the
\* no-suggestions marker.
FieldVariants(name) ==
    CASE name = "complexity_analysis" ->
            {JSUndefined, Str(<<>>), Num(5),
             Str(<<"T", "i", "m", "e", " ", "C", "o", "m", "p", "l", "e",
                   "x", "i", "t", "y", ":", " ", "O", "(", "n",
                   "SUPERSCRIPT_TWO", ")", "\n", "S", "p", "a", "c", "e",
                   " ", "C", "o", "m", "p", "l", "e", "x", "i", "t", "y",
                   ":", " ", "O", "(", "1", ")">>)}
      [] name = "documentation" ->
            {JSUndefined, Str(<<>>), Num(5), Str(<<" ", "N", "o", " ", "d",
                                                   "o", "c", "u", "m", "e",
                                                   "n", "t", "a", "t", "i",
                                                   "o", "n", " ", "g", "e",
                                                   "n", "e", "r", "a", "t",
                                                   "e", "d", " ">>)}
      [] name = "refactoring_suggestions" ->
            {JSUndefined, Str(<<>>), Num(5), Str(NoSuggestionsMarker)}
      [] OTHER -> {JSUndefined}

ResultsFields ==
    {"complexity_analysis", "documentation", "refactoring_suggestions",
     "improvement_suggestions", "analysis_id", "structure_img"}

\* The results objects of the responses: the full one, the empty one, the
\* full one with one field changed, and the server-reported failures.
ResultsObjects ==
    {FullResults, EmptyResults}
        \cup UNION {{[FullResults EXCEPT ![name] = v] : v \in FieldVariants(name)} :
                       name \in ResultsFields}
        \cup {[FullResults EXCEPT !.success = Bool(FALSE)],
              [EmptyResults EXCEPT !.success = Bool(FALSE)],
              [EmptyResults EXCEPT !.success = Bool(FALSE),
                                   !.error = Str(<<"O", "u", "t", " ", "o",
                                                   "f", " ", "q", "u", "o",
                                                   "t", "a">>)]}

Body(results) == [type |-> "object", results |-> results]

\* The JSON bodies of the responses with a success status: bodies with a
\* results object, the body {}, the body null, and bodies whose results
\* property is null or a string.
Bodies ==
    {Body(r) : r \in ResultsObjects}
        \cup {Body(JSUndefined), JSNull, Body(JSNull), Body(Str(<<"o", "k">>))}

\* The JSON bodies of the responses with a failure status.
ErrorBodies ==
    {Body([EmptyResults EXCEPT !.error = Str(<<"O", "u", "t", " ", "o",
                                               "f", " ", "q", "u", "o",
                                               "t", "a">>)]), Body(JSUndefined)}

\* The call this.countFunctions(code) of the rendering pass, tabulated over the
\* code inputs of the forms.
functionsCountOf == [code \in {form.code : form \in Forms} |-> countFunctions(code)]

\* The calls parseComplexityFromAgent(analysisData.complexity_analysis) and
\* parseRefactoringSuggestionsFromAgent(analysisData.refactoring_suggestions) of
\* the rendering pass, tabulated over the bodies of the responses.
complexityDataOf ==
    [f \in Files |->
        [v \in {Get(Get(b, "results"), "complexity_analysis") : b \in Bodies} |->
            parseComplexityFromAgent(f, v)]]

refactoringSuggestionsOf ==
    [f \in Files |->
        [v \in {Get(Get(b, "results"), "refactoring_suggestions") : b \in Bodies} |->
            parseRefactoringSuggestionsFromAgent(f, v)]]

\* updateXTab(data), called in cycle c
Rendered(c, data) == [kind |-> "rendered", by |-> c, data |-> data]

\* setXTabError(message), called in cycle c
Placeholder(c, message) == [kind |-> "placeholder", by |-> c, message |-> Str(message)]

\* showAlert(message, type) / showHackerAlert(message, type)
Alert(message, type) == [message |-> Str(message), type |-> type]

\* showLoadingState of part_000 hides the results container; analysis.js
\* disables the submit button instead and leaves the results container alone.
showLoadingState(f, p) ==
    IF f = "plain"
    THEN [p EXCEPT !.loadingOverlayHidden = FALSE, !.resultsHidden = TRUE]
    ELSE [p EXCEPT !.loadingOverlayHidden = FALSE, !.submitDisabled = TRUE]

\* A hideLoadingState that leaves the overlay up and the button disabled.
hideLoadingState_overlayStays(f, p) ==
    IF f = "plain" THEN [p EXCEPT !.resultsHidden = FALSE] ELSE p

hideLoadingState(f, p) ==
    IF f = "plain"
    THEN [p EXCEPT !.loadingOverlayHidden = TRUE, !.resultsHidden = FALSE]
    ELSE [p EXCEPT !.loadingOverlayHidden = TRUE, !.submitDisabled = FALSE]

\* if (!result || !result.results) return false; ... return true;
validateResponse(result) ==
    IF ~ToBoolean(result) THEN FALSE
    ELSE ToBoolean(Get(result, "results"))

\* Mutant of isServerFailure: no response is taken as a reported failure.
isServerFailure_never(result) == FALSE

\* result.results.success === false
isServerFailure(result) == Get(Get(result, "results"), "success") = Bool(FALSE)

\* The message of the TypeError a call of a missing method throws; its wording
\* is the engine's and is kept as the name of the error.
TypeErrorMessage == <<"T", "y", "p", "e", "E", "r", "r", "o", "r">>

\* The message of the error fetch() rejects with, and of the SyntaxError
\* response.json() rejects with; the wording is the browser's.
NetworkErrorMessage == <<"F", "a", "i", "l", "e", "d", " ", "t", "o", " ",
                         "f", "e", "t", "c", "h">>

SyntaxErrorMessage == <<"S", "y", "n", "t", "a", "x", "E", "r", "r", "o",
                        "r">>

NoDocumentationGenerated == <<"N", "o", " ", "d", "o", "c", "u", "m", "e",
                              "n", "t", "a", "t", "i", "o", "n", " ", "g",
                              "e", "n", "e", "r", "a", "t", "e", "d">>

ComplexityPlaceholder(f) ==
    IF f = "plain" THEN <<"C", "o", "u", "l", "d", " ", "n", "o", "t", " ",
                          "p", "a", "r", "s", "e", " ", "c", "o", "m", "p",
                          "l", "e", "x", "i", "t", "y", " ", "d", "a", "t",
                          "a">>
    ELSE <<"S", "C", "A", "N", " ", "E", "R", "R", "O", "R", ":", " ", "C",
           "o", "u", "l", "d", " ", "n", "o", "t", " ", "p", "a", "r", "s",
           "e", " ", "c", "o", "m", "p", "l", "e", "x", "i", "t", "y", " ",
           "d", "a", "t", "a">>

DocumentationPlaceholder(f) ==
    IF f = "plain" THEN <<"N", "o", " ", "d", "o", "c", "u", "m", "e", "n",
                          "t", "a", "t", "i", "o", "n", " ", "w", "a", "s",
                          " ", "g", "e", "n", "e", "r", "a", "t", "e", "d",
                          ".">>
    ELSE <<"N", "O", " ", "D", "A", "T", "A", ":", " ", "D", "o", "c", "u",
           "m", "e", "n", "t", "a", "t", "i", "o", "n", " ", "g", "e", "n",
           "e", "r", "a", "t", "i", "o", "n", " ", "f", "a", "i", "l", "e",
           "d", ".">>

RefactoringPlaceholder(f) ==
    IF f = "plain" THEN <<"N", "o", " ", "r", "e", "f", "a", "c", "t", "o",
                          "r", "i", "n", "g", " ", "s", "u", "g", "g", "e",
                          "s", "t", "i", "o", "n", "s", " ", "a", "v", "a",
                          "i", "l", "a", "b", "l", "e", ".">>
    ELSE <<"N", "O", " ", "O", "P", "T", "I", "M", "I", "Z", "A", "T", "I",
           "O", "N", "S", ":", " ", "C", "o", "d", "e", " ", "a", "l", "r",
           "e", "a", "d", "y", " ", "o", "p", "t", "i", "m", "i", "z", "e",
           "d", ".">>

NoImprovements(f) ==
    IF f = "plain" THEN <<"N", "o", " ", "s", "p", "e", "c", "i", "f", "i",
                          "c", " ", "i", "m", "p", "r", "o", "v", "e", "m",
                          "e", "n", "t", "s", " ", "s", "u", "g", "g", "e",
                          "s", "t", "e", "d">>
    ELSE <<"N", "O", " ", "I", "M", "P", "R", "O", "V", "E", "M", "E", "N",
           "T", "S", " ", "D", "E", "T", "E", "C", "T", "E", "D">>

RenderErrorPrefix(f) ==
    IF f = "plain" THEN <<"E", "r", "r", "o", "r", " ", "d", "i", "s", "p",
                          "l", "a", "y", "i", "n", "g", " ", "r", "e", "s",
                          "u", "l", "t", "s", ":", " ">>
    ELSE <<"F", "A", "T", "A", "L", " ", "E", "R", "R", "O", "R", ":", " ">>

\* The five painting steps of processAnalysisResults, in order, inside its
\* try block: documentation.trim() of a truthy value that is not a string and
\* a throwing parseRefactoringSuggestionsFromAgent end the pass at that step
\* with the alert of the catch block; the tabs of the later steps stay as they
\* were.
processAnalysisResults(f, c, result, code, before) ==
    LET analysisData == Get(result, "results")
        complexityData == complexityDataOf[f][Get(analysisData, "complexity_analysis")]
        documentation == Get(analysisData, "documentation")
        suggestions ==
            refactoringSuggestionsOf[f][Get(analysisData, "refactoring_suggestions")]
        t1 == [before EXCEPT !.complexity =
                 IF ToBoolean(complexityData) THEN Rendered(c, complexityData)
                 ELSE Placeholder(c, ComplexityPlaceholder(f))]
        t2 == [t1 EXCEPT !.documentation =
                 IF ToBoolean(documentation)
                    /\ trim(documentation.chars) # NoDocumentationGenerated
                 THEN Rendered(c, [content |-> documentation])
                 ELSE Placeholder(c, DocumentationPlaceholder(f))]
        t3 == [t2 EXCEPT !.refactoring =
                 IF Len(suggestions.items) > 0
                 THEN Rendered(c, [suggestions |-> suggestions])
                 ELSE Placeholder(c, RefactoringPlaceholder(f))]
        t4 == [t3 EXCEPT !.structure =
                 Rendered(c, [functions_count |-> functionsCountOf[code],
                              lines_count |->
                                  Num(Cardinality({i \in 1..Len(code) :
                                                      code[i] = "\n"}) + 1),
                              complexity_score |->
                                  IF ToBoolean(complexityData)
                                  THEN Or(complexityData.score, Num(5))
                                  ELSE Num(5),
                              dependencies |-> Num(0),
                              structure_image |-> Get(analysisData, "structure_img")])]
        t5 == [t4 EXCEPT !.improvements =
                 Rendered(c, [performance_score |->
                                  IF ToBoolean(complexityData)
                                  THEN Or(complexityData.performance_score, Num(65))
                                  ELSE Num(65),
                              readability_score |-> Num(75),
                              documentation_score |->
                                  IF ToBoolean(documentation) THEN Num(80) ELSE Num(30),
                              testing_score |-> Num(10),
                              content |-> Or(Get(analysisData, "improvement_suggestions"),
                                             Str(NoImprovements(f)))])]
    IN  IF ToBoolean(documentation) /\ documentation.type # "string"
        THEN [tabs |-> t1, alerts |-> <<Alert(RenderErrorPrefix(f) \o TypeErrorMessage, "error")>>]
        ELSE IF suggestions.type = "throw"
        THEN [tabs |-> t2, alerts |-> <<Alert(RenderErrorPrefix(f) \o TypeErrorMessage, "error")>>]
        ELSE [tabs |-> t5, alerts |-> <<>>]

\* if (analysisData.analysis_id) this.currentSessionId = analysisData.analysis_id
sessionIdAfterProcessing(result, sessionId) ==
    Or(Get(Get(result, "results"), "analysis_id"), sessionId)

\* Date.now().toString(): the digits of the clock, one fixed reading.
DateNowString == Str(<<"1", "7", "6", "2", "3", "0", "0", "8", "0", "0",
                       "0", "0", "0">>)

EmptyCodeAlert(f) ==
    IF f = "plain" THEN <<"P", "l", "e", "a", "s", "e", " ", "e", "n", "t",
                          "e", "r", " ", "s", "o", "m", "e", " ", "c", "o",
                          "d", "e", " ", "t", "o", " ", "a", "n", "a", "l",
                          "y", "z", "e", "!">>
    ELSE <<"E", "R", "R", "O", "R", ":", " ", "N", "o", " ", "c", "o", "d",
           "e", " ", "d", "e", "t", "e", "c", "t", "e", "d", " ", "i", "n",
           " ", "i", "n", "p", "u", "t", " ", "b", "u", "f", "f", "e", "r",
           "!">>

NoOptionsAlert(f) ==
    IF f = "plain" THEN <<"P", "l", "e", "a", "s", "e", " ", "s", "e", "l",
                          "e", "c", "t", " ", "a", "t", " ", "l", "e", "a",
                          "s", "t", " ", "o", "n", "e", " ", "a", "n", "a",
                          "l", "y", "s", "i", "s", " ", "o", "p", "t", "i",
                          "o", "n", "!">>
    ELSE <<"E", "R", "R", "O", "R", ":", " ", "N", "o", " ", "a", "n", "a",
           "l", "y", "s", "i", "s", " ", "m", "o", "d", "u", "l", "e", "s",
           " ", "s", "e", "l", "e", "c", "t", "e", "d", "!">>

FailurePrefix(f) ==
    IF f = "plain" THEN <<"A", "n", "a", "l", "y", "s", "i", "s", " ", "f",
                          "a", "i", "l", "e", "d", ":", " ">>
    ELSE <<"C", "R", "I", "T", "I", "C", "A", "L", " ", "E", "R", "R", "O",
           "R", ":", " ">>

SuccessAlert(f) ==
    IF f = "plain" THEN <<"A", "n", "a", "l", "y", "s", "i", "s", " ", "c",
                          "o", "m", "p", "l", "e", "t", "e", "d", " ", "s",
                          "u", "c", "c", "e", "s", "s", "f", "u", "l", "l",
                          "y", "!">>
    ELSE <<"S", "U", "C", "C", "E", "S", "S", ":", " ", "A", "n", "a", "l",
           "y", "s", "i", "s", " ", "c", "o", "m", "p", "l", "e", "t", "e",
           "d", " ", "s", "u", "c", "c", "e", "s", "s", "f", "u", "l", "l",
           "y", "!">>

InvalidResponseFormat == <<"I", "n", "v", "a", "l", "i", "d", " ", "r",
                           "e", "s", "p", "o", "n", "s", "e", " ", "f",
                           "o", "r", "m", "a", "t", " ", "f", "r", "o",
                           "m", " ", "s", "e", "r", "v", "e", "r">>

AnalysisFailedOnServer == <<"A", "n", "a", "l", "y", "s", "i", "s", " ",
                            "f", "a", "i", "l", "e", "d", " ", "o", "n",
                            " ", "t", "h", "e", " ", "s", "e", "r", "v",
                            "e", "r", ".">>

NonJsonErrorResponse == <<"S", "e", "r", "v", "e", "r", " ", "r", "e", "t",
                          "u", "r", "n", "e", "d", " ", "a", " ", "n", "o",
                          "n", "-", "J", "S", "O", "N", " ", "e", "r", "r",
                          "o", "r", " ", "r", "e", "s", "p", "o", "n", "s",
                          "e", ".">>

HttpErrorStatus == <<"H", "T", "T", "P", " ", "e", "r", "r", "o", "r", "!",
                     " ", "s", "t", "a", "t", "u", "s", ":", " ">>

\* The message of new Error(value): the string itself, or the value printed.
ErrorMessage(value) ==
    IF value.type = "string" THEN value.chars
    ELSE IF value.type = "number" THEN DecimalString(value.num)
    ELSE <<"[", "o", "b", "j", "e", "c", "t", " ", "O", "b", "j", "e", "c",
           "t", "]">>

(***************************************************************************)
(* The specification of the submit cycle.  handleFormSubmit runs to its    *)
(* first await in the step of the submit event; each later step is the     *)
(* code between two awaits, run when the awaited promise settles.  When a  *)
(* cycle ends, op names handleFormSubmit and arg records the cycle: its    *)
(* inputs, what it received, what it alerted, and the page before the      *)
(* submit event, before the last step and after it.                        *)
(***************************************************************************)
InitSubmit ==
    /\ file \in Files
    /\ arg = JSUndefined
    /\ op = "none"
    /\ ret = JSUndefined
    /\ \E hidden \in BOOLEAN : Constructed(hidden)

\* The analyzer and the page, as a cycle finds or leaves them.
Snapshot(sessionId, t, p) == [currentSessionId |-> sessionId, tabs |-> t, page |-> p]

\* A call of handleFormSubmit that waits at an await.
NewCycle(code, hasOptions) ==
    [code |-> Str(code), hasOptions |-> hasOptions, pc |-> "fetch", status |-> 0,
     before |-> Snapshot(currentSessionId, tabs, page)]

\* A call of handleFormSubmit that has returned.
Returned == [pc |-> "done"]

\* The last step of cycle c: the alerts it surfaced, the body it received,
\* whether fetch was called, and the analyzer and the page as it leaves them.
Return(c, cycle, sent, received, alerts, after) ==
    /\ currentSessionId' = after.currentSessionId
    /\ tabs' = after.tabs
    /\ page' = after.page
    /\ op' = "handleFormSubmit"
    /\ arg' = [type |-> "cycle", id |-> c, code |-> cycle.code,
               hasOptions |-> cycle.hasOptions, sent |-> sent,
               status |-> cycle.status, result |-> received, alerts |-> alerts,
               before |-> cycle.before,
               resumed |-> Snapshot(currentSessionId, tabs, page), after |-> after]
    /\ ret' = JSUndefined
    /\ UNCHANGED file

\* The catch block of handleFormSubmit: the alert, then hideLoadingState.
Catch(c, message, received) ==
    /\ Return(c, cycles[c], TRUE, received,
              <<Alert(FailurePrefix(file) \o message, "error")>>,
              Snapshot(currentSessionId, tabs, hideLoadingState(file, page)))
    /\ cycles' = [cycles EXCEPT ![c] = Returned]

\* The submit event.  A disabled submit button submits nothing.
HandleFormSubmit(code, hasOptions) ==
    /\ Len(cycles) < MaxSubmits
    /\ ~page.submitDisabled
    /\ LET c == Len(cycles) + 1
           cycle == NewCycle(code, hasOptions)
       IN  IF ~ToBoolean(Str(code)) \/ trim(code) = <<>>
           THEN /\ Return(c, cycle, FALSE, JSUndefined,
                          <<Alert(EmptyCodeAlert(file), "error")>>,
                          Snapshot(currentSessionId, tabs, page))
                /\ cycles' = Append(cycles, Returned)
           ELSE IF ~hasOptions
           THEN /\ Return(c, cycle, FALSE, JSUndefined,
                          <<Alert(NoOptionsAlert(file), "error")>>,
                          Snapshot(currentSessionId, tabs, page))
                /\ cycles' = Append(cycles, Returned)
           ELSE /\ cycles' = Append(cycles, cycle)
                /\ page' = showLoadingState(file, page)
                /\ UNCHANGED <<file, arg, op, ret, currentSessionId, tabs>>

\* await fetch(...) rejects: the catch block runs.
FetchRejects(c) ==
    /\ c \in 1..Len(cycles)
    /\ cycles[c].pc = "fetch"
    /\ Catch(c, NetworkErrorMessage, JSUndefined)

\* await fetch(...) resolves with a response of the given status.
FetchResolves(c, status) ==
    /\ c \in 1..Len(cycles)
    /\ cycles[c].pc = "fetch"
    /\ cycles' = [cycles EXCEPT ![c].status = status,
                                ![c].pc = IF status = StatusOk THEN "json" ELSE "errorJson"]
    /\ UNCHANGED <<file, arg, op, ret, currentSessionId, tabs, page>>

\* !response.ok: await response.json().catch(...) settles, and the error
\* built from the body is thrown.  errorData.results of the body null throws
\* a TypeError instead.
ErrorBodySettles(c, body) ==
    /\ c \in 1..Len(cycles)
    /\ cycles[c].pc = "errorJson"
    /\ LET errorData ==
               IF body = NotJson
               THEN Body([EmptyResults EXCEPT !.error = Str(NonJsonErrorResponse)])
               ELSE body
           results == Get(errorData, "results")
           error == IF ToBoolean(results) THEN Get(results, "error") ELSE JSUndefined
           generic == Str(HttpErrorStatus \o DecimalString(cycles[c].status))
       IN  IF errorData = JSNull THEN Catch(c, TypeErrorMessage, body)
           ELSE Catch(c, ErrorMessage(Or(error, generic)), body)

\* await response.json() rejects: the body is not JSON.
JsonRejects(c) ==
    /\ c \in 1..Len(cycles)
    /\ cycles[c].pc = "json"
    /\ Catch(c, SyntaxErrorMessage, NotJson)

\* await response.json() resolves: validation, the success check, the session
\* id, the rendering pass, hideLoadingState and the success alert.
JsonResolves(c, result) ==
    /\ c \in 1..Len(cycles)
    /\ cycles[c].pc = "json"
    /\ IF ~validateResponse(result)
       THEN Catch(c, InvalidResponseFormat, result)
       ELSE IF isServerFailure(result)
       THEN Catch(c, ErrorMessage(Or(Get(Get(result, "results"), "error"),
                                      Str(AnalysisFailedOnServer))),
                  result)
       ELSE LET pass == processAnalysisResults(file, c, result, cycles[c].code.chars, tabs)
                sessionId == Or(Get(Get(result, "results"), "analysis_id"), DateNowString)
            IN  /\ Return(c, cycles[c], TRUE, result,
                          pass.alerts \o <<Alert(SuccessAlert(file), "success")>>,
                          Snapshot(sessionIdAfterProcessing(result, sessionId), pass.tabs,
                                   hideLoadingState(file, page)))
                /\ cycles' = [cycles EXCEPT ![c] = Returned]

NextSubmit ==
    \/ \E form \in Forms : HandleFormSubmit(form.code, form.hasOptions)
    \/ \E c \in 1..MaxSubmits : FetchRejects(c)
    \/ \E c \in 1..MaxSubmits, status \in {StatusOk, StatusError} : FetchResolves(c, status)
    \/ \E c \in 1..MaxSubmits, body \in ErrorBodies \cup {JSNull, NotJson} :
          ErrorBodySettles(c, body)
    \/ \E c \in 1..MaxSubmits : JsonRejects(c)
    \/ \E c \in 1..MaxSubmits, result \in Bodies : JsonResolves(c, result)

SpecSubmit == InitSubmit /\ [][NextSubmit]_vars

\* The promise cycle c awaits settles, and the code after the await runs.
Settles(c) ==
    \/ FetchRejects(c)
    \/ \E status \in {StatusOk, StatusError} : FetchResolves(c, status)
    \/ \E body \in ErrorBodies \cup {JSNull, NotJson} : ErrorBodySettles(c, body)
    \/ JsonRejects(c)
    \/ \E result \in Bodies : JsonResolves(c, result)


(***************************************************************************)
(* Claims                                                                  *)
(***************************************************************************)
\* '#FF1744', the colour both files return from the "2^n" rule.
WorstTierColor == Str(<<"#", "F", "F", "1", "7", "4", "4">>)

\* C1: getComplexityColor gives every token whose lowercased form contains
\* "n log n" and no "1" (so "O(n log n)") the colour of the "n log n" rule,
\* and not the colour of the bare "n" rule nor of any other rule.
C1_NLogNGetsFairTierColor ==
    (/\ op = "getComplexityColor"
     /\ includes(toLowerCase(arg.chars), <<"n", " ", "l", "o", "g", " ", "n">>)
     /\ ~includes(toLowerCase(arg.chars), <<"1">>))
        => /\ ret = ComplexityColors(file).nlogn
           /\ ret \notin {ComplexityColors(file).logn, ComplexityColors(file).n}

\* C2: getComplexityColor("O(2^n)") is the colour of the "2^n" rule, not the
\* colour of the bare "n" rule and not the colour of the "n^2" rule.
C2_ExponentialGetsWorstTierColor ==
    (op = "getComplexityColor" /\ arg = Str(O_2_pow_n))
        => /\ ret = WorstTierColor
           /\ ret # ComplexityColors(file).n
           /\ ret # ComplexityColors(file).squared

C2_Witness ==
    /\ op = "getComplexityColor"
    /\ arg = Str(O_2_pow_n)
    /\ ret = WorstTierColor

\* The tokens the specification recognizes, the squared glyph being U+00B2.
RecognizedTokens ==
    {O_1, O_log_n, O_n, O_n_log_n, O_n_sup2, O_n_pow2, O_2_pow_n}

\* The performance score the specification gives a recognized token.
SpecPerformance(t) ==
    CASE t = O_1 -> 95
      [] t = O_log_n -> 85
      [] t = O_n -> 70
      [] t = O_n_log_n -> 55
      [] t \in {O_n_sup2, O_n_pow2} -> 25
      [] t = O_2_pow_n -> 5

\* The severity the specification gives a recognized token.
SpecSeverity(t) ==
    CASE t = O_1 -> 10
      [] t = O_log_n -> 8
      [] t = O_n -> 6
      [] t = O_n_log_n -> 4
      [] t \in {O_n_sup2, O_n_pow2} -> 2
      [] t = O_2_pow_n -> 1

IsRecognized(v) == v.type = "string" /\ v.chars \in RecognizedTokens

IsUnrecognizedString(v) == v.type = "string" /\ v.chars \notin RecognizedTokens

\* C3: in both files, for every recognized token T, calculatePerformanceScore
\* returns T's table value (95, 85, 70, 55, 25, 25, 5), getComplexityLevel
\* returns a label other than the Unknown default, and calculateComplexityScore
\* uses T's severity (10, 8, 6, 4, 2, 2, 1).
C3_RecognizedTokensGetTableValues ==
    /\ (op = "calculatePerformanceScore" /\ IsRecognized(arg.time))
          => ret = Num(SpecPerformance(arg.time.chars))
    /\ (op = "getComplexityLevel" /\ IsRecognized(arg))
          => ret # UnknownLevel(file)
    /\ (op = "calculateComplexityScore" /\ IsRecognized(arg.time))
          => timeScore(file, arg) = Num(SpecSeverity(arg.time.chars))
    /\ (op = "calculateComplexityScore" /\ IsRecognized(arg.space))
          => spaceScore(file, arg) = Num(SpecSeverity(arg.space.chars))

\* C4: for every string that is not a recognized token, the empty string
\* included, calculatePerformanceScore returns 50, getComplexityLevel returns
\* the Unknown label, and calculateComplexityScore uses severity 5 for it as
\* the time token and severity 8 as the space token.
C4_UnrecognizedStringsGetDefaults ==
    op # "none" =>
        /\ (op = "calculatePerformanceScore" /\ IsUnrecognizedString(arg.time))
              => ret = Num(50)
        /\ (op = "getComplexityLevel" /\ IsUnrecognizedString(arg))
              => ret = UnknownLevel(file)
        /\ (op = "calculateComplexityScore" /\ IsUnrecognizedString(arg.time))
              => timeScore(file, arg) = Num(5)
        /\ (op = "calculateComplexityScore" /\ IsUnrecognizedString(arg.space))
              => spaceScore(file, arg) = Num(8)

\* C5: calculateComplexityScore returns the mean of the two severities
\* rounded to the nearest integer, halves rounded up (r - 1/2 <= mean < r + 1/2),
\* always an integer in 1..10; (O(1), O(1)) gives 10, (O(n), O(1)) gives 8 and
\* (O(n^2), O(n^2)) gives 2.
C5_OverallScoreIsMeanRoundedHalfUp ==
    op = "calculateComplexityScore" =>
        LET sum == timeScore(file, arg).num + spaceScore(file, arg).num
        IN  /\ ret.type = "number"
            /\ ret.num \in 1..10
            /\ 2 * ret.num - 1 <= sum
            /\ sum < 2 * ret.num + 1
            /\ arg = Analysis(Str(O_1), Str(O_1)) => ret.num = 10
            /\ arg = Analysis(Str(O_n), Str(O_1)) => ret.num = 8
            /\ arg = Analysis(Str(O_n_pow2), Str(O_n_pow2)) => ret.num = 2

\* The mean of 1 and 10 is 5.5: the half is rounded up.
C5_Witness ==
    /\ op = "calculateComplexityScore"
    /\ arg = Analysis(Str(O_2_pow_n), Str(O_1))
    /\ ret = Num(6)

\* C6, as claimed: parseComplexityFromAgent returns null if and only if its
\* input is null, undefined or not a string; every string gives an assessment.
C6_NullIffNotAString ==
    op = "parseComplexityFromAgent" => (ret = JSNull <=> arg.type # "string")

\* C6, amended: parseComplexityFromAgent returns null if and only if its input
\* is null, undefined, not a string, or the empty string; every non-empty
\* string gives a non-null assessment.
C6_NullIffNotANonEmptyString ==
    op = "parseComplexityFromAgent" =>
        /\ ret = JSNull <=> (arg.type # "string" \/ arg.chars = <<>>)
        /\ ret # JSNull => ret.type = "object" /\ ret.full_analysis = arg

C6_Witness ==
    /\ op = "parseComplexityFromAgent"
    /\ arg = Str(<<>>)
    /\ ret = JSNull

\* A parenthesized Big-O expression at position k: the letter O (either case
\* when the search ignores case), "(", and a ")" further on.
BigOAt(text, k, ignoreCase) ==
    /\ k + 1 <= Len(text)
    /\ text[k] = "O" \/ (ignoreCase /\ text[k] = "o")
    /\ text[k + 1] = "("
    /\ \E m \in (k + 2)..Len(text) : text[m] = ")"

\* The expression at k, up to its closing parenthesis.
BigOExpression(text, k) ==
    SubSeq(text, k, Min({m \in (k + 2)..Len(text) : text[m] = ")"}))

\* The Big-O expressions that follow the label in the text.
LabelledBigO(text, label) ==
    {BigOExpression(text, AfterWhitespace(text, i + Len(label))) :
        i \in {j \in 1..Len(text) :
                 /\ LabelAt(text, j, label)
                 /\ BigOAt(text, AfterWhitespace(text, j + Len(label)), TRUE)}}

\* C7: whenever the text contains "Time Complexity:" (any letter case)
\* followed by a parenthesized Big-O expression, the time token is exactly that
\* labelled expression, which starts with the letter O.
C7_LabelledTimeExpressionIsTheToken ==
    (/\ op = "parseComplexityFromAgent"
     /\ ret # JSNull
     /\ LabelledBigO(arg.chars, LabelTime) # {})
        => /\ ret.time_complexity.chars \in LabelledBigO(arg.chars, LabelTime)
           /\ LowerChar(ret.time_complexity.chars[1]) = "o"

\* The positions of the free-standing expressions O(...) of the text.
FreeStandingBigO(text) == {k \in 1..Len(text) : BigOAt(text, k, FALSE)}

\* C8: when the text has no labelled time complexity, the time token is the
\* first free-standing expression O(...) of the text, and is the default
\* "O(n)" exactly when the text contains no such expression.
C8_FallbackIsFirstFreeStandingBigO ==
    (/\ op = "parseComplexityFromAgent"
     /\ ret # JSNull
     /\ LabelledBigO(arg.chars, LabelTime) = {})
        => IF FreeStandingBigO(arg.chars) = {}
           THEN ret.time_complexity = Str(O_n)
           ELSE ret.time_complexity =
                    Str(BigOExpression(arg.chars, Min(FreeStandingBigO(arg.chars))))

\* C9: the space token is the parenthesized Big-O expression that follows
\* "Space Complexity:" (any letter case) when there is one, and "O(1)" for
\* every text without such a labelled expression, whatever other Big-O
\* expressions the text holds.
C9_SpaceTokenIsLabelledOrDefault ==
    (op = "parseComplexityFromAgent" /\ ret # JSNull)
        => IF LabelledBigO(arg.chars, LabelSpace) = {}
           THEN ret.space_complexity = Str(O_1)
           ELSE ret.space_complexity.chars \in LabelledBigO(arg.chars, LabelSpace)

\* C10: in every assessment full_analysis is the input unchanged, the time
\* token is a contiguous substring of the input or the default "O(n)", the
\* space token is a contiguous substring of the input or the default "O(1)",
\* and the colours and scores are those of these exact token strings.
C10_TokensAreLiteralSubstrings ==
    (op = "parseComplexityFromAgent" /\ ret # JSNull)
        => /\ ret.full_analysis = arg
           /\ \/ ret.time_complexity = Str(O_n)
              \/ includes(arg.chars, ret.time_complexity.chars)
           /\ \/ ret.space_complexity = Str(O_1)
              \/ includes(arg.chars, ret.space_complexity.chars)
           /\ ret.time_color = getComplexityColor(file, ret.time_complexity)
           /\ ret.space_color = getComplexityColor(file, ret.space_complexity)
           /\ ret.performance_score =
                  calculatePerformanceScore(file, Analysis(ret.time_complexity, JSUndefined))
           /\ ret.score =
                  calculateComplexityScore(
                      file, Analysis(ret.time_complexity, ret.space_complexity))

\* The specification's example: both tokens are taken literally from the text.
C10_Witness ==
    /\ op = "parseComplexityFromAgent"
    /\ ret # JSNull
    /\ ret.time_complexity = Str(O_n_log_n)
    /\ ret.space_complexity = Str(O_n)
    /\ includes(arg.chars, O_n_log_n)
    /\ includes(arg.chars, O_n)

\* The positions where a line of the text starts: the first position and the
\* one after each line end.
LineStarts(text) == {i \in 1..(Len(text) + 1) : i = 1 \/ text[i - 1] = "\n"}

\* The line starting at position i, without its line end, trimmed.
LineAt(text, i) ==
    LET end == Min({k \in i..(Len(text) + 1) : k = Len(text) + 1 \/ text[k] = "\n"})
    IN  trim(SubSeq(text, i, end - 1))

\* The value holds the marker phrase, as includes() finds it.
ContainsMarker(v) ==
    \/ v.type = "string" /\ includes(v.chars, NoSuggestionsMarker)
    \/ v.type = "array" /\ \E i \in 1..Len(v.items) : v.items[i] = Str(NoSuggestionsMarker)

IsAbsent(v) == ~ToBoolean(v)

\* Some line of the text is, once trimmed, neither empty nor matched by the
\* header pattern.
HasSuggestionLine(text) ==
    \E i \in LineStarts(text) :
        LineAt(text, i) # <<>> /\ ~IsHeaderLine(LineAt(text, i))

\* C11 as stated: for an absent or string input the list is empty if and only
\* if the input is absent (or the empty text) or contains the marker phrase.
C11_EmptyIffAbsentOrMarked ==
    (/\ op = "parseRefactoringSuggestionsFromAgent"
     /\ arg.type \in {"string", "null", "undefined"})
        => (ret = List(<<>>) <=> IsAbsent(arg) \/ ContainsMarker(arg))

\* C11: parseRefactoringSuggestionsFromAgent returns an empty list if and only
\* if its input is absent (falsy), contains the marker phrase "No refactoring
\* suggestions", or is a text none of whose lines is, once trimmed, non-empty
\* and not a header or separator line.
C11_EmptyIffAbsentMarkedOrNoSuggestionLine ==
    op = "parseRefactoringSuggestionsFromAgent"
        => (ret = List(<<>>)
              <=> \/ IsAbsent(arg)
                  \/ ContainsMarker(arg)
                  \/ arg.type = "string" /\ ~HasSuggestionLine(arg.chars))

\* A non-empty text without the marker, made of header, separator and blank
\* lines only, has been parsed to the empty list.
C11_Witness ==
    /\ op = "parseRefactoringSuggestionsFromAgent"
    /\ arg.type = "string"
    /\ arg.chars # <<>>
    /\ ~ContainsMarker(arg)
    /\ ret = List(<<>>)

IsSuffix(s, t) == Len(s) <= Len(t) /\ SubSeq(t, Len(t) - Len(s) + 1, Len(t)) = s

\* The descriptions of the items end lines of the text that follow one another
\* in the order of the items, from position `from` on.
RECURSIVE InSourceOrder(_, _, _)
InSourceOrder(text, items, from) ==
    \/ items = <<>>
    \/ \E i \in LineStarts(text) :
          /\ i >= from
          /\ LineAt(text, i) # <<>>
          /\ IsSuffix(Head(items).description.chars, LineAt(text, i))
          /\ InSourceOrder(text, Tail(items), i + 1)

\* The priority tier of a suggestion; the hacker theme spells the tiers in
\* capitals.
Tier(suggestion) == toLowerCase(suggestion.priority.chars)

\* C12: the suggestions follow the order of their source lines, their ids are
\* 0..n-1 in that order, and a suggestion is High exactly when its id is less
\* than 2 and Medium otherwise; the three numbered lines of the example give
\* Extract method, Rename variable, Remove dead code as High, High, Medium.
C12_OrderIdsAndPriorities ==
    (op = "parseRefactoringSuggestionsFromAgent" /\ ret.type = "array")
        => /\ \A k \in 1..Len(ret.items) :
                /\ ret.items[k].id = Num(k - 1)
                /\ Tier(ret.items[k]) = <<"h", "i", "g", "h">> <=> k - 1 < 2
                /\ Tier(ret.items[k]) = <<"m", "e", "d", "i", "u", "m">> <=> k - 1 >= 2
           /\ arg.type = "string" => InSourceOrder(arg.chars, ret.items, 1)
           /\ arg = Str(ThreeNumberedSuggestions)
                => /\ Len(ret.items) = 3
                   /\ ret.items[1].description = Str(<<"E", "x", "t", "r",
                                                       "a", "c", "t", " ",
                                                       "m", "e", "t", "h",
                                                       "o", "d">>)
                   /\ ret.items[2].description = Str(<<"R", "e", "n", "a",
                                                       "m", "e", " ", "v",
                                                       "a", "r", "i", "a",
                                                       "b", "l", "e">>)
                   /\ ret.items[3].description = Str(<<"R", "e", "m", "o",
                                                       "v", "e", " ", "d",
                                                       "e", "a", "d", " ",
                                                       "c", "o", "d", "e">>)

\* The example text has been parsed to three suggestions.
C12_Witness ==
    /\ op = "parseRefactoringSuggestionsFromAgent"
    /\ arg = Str(ThreeNumberedSuggestions)
    /\ ret.type = "array"
    /\ Len(ret.items) = 3

\* Digits, periods, hyphens, asterisks, plus signs, the bullet glyph (U+2022)
\* and whitespace.
IsNumberingChar(ch) ==
    IsDigit(ch) \/ ch \in {".", "-", "*", "+", "BULLET"} \/ IsWhitespace(ch)

\* The line without its whole leading run of numbering characters, trimmed.
WithoutNumbering(line) ==
    LET rest == {i \in 1..(Len(line) + 1) : i = Len(line) + 1 \/ ~IsNumberingChar(line[i])}
    IN  trim(SubSeq(line, Min(rest), Len(line)))

\* C13: in both files every description is a source line with its whole
\* leading run of digits, periods, hyphens, asterisks, plus signs, bullet
\* glyphs and whitespace removed and then trimmed, so that no description
\* begins with one of those characters.
C13_DescriptionsHaveNoLeadingNumbering ==
    (op = "parseRefactoringSuggestionsFromAgent" /\ ret.type = "array")
        => \A k \in 1..Len(ret.items) :
              LET description == ret.items[k].description.chars
              IN  /\ description # <<>> => ~IsNumberingChar(description[1])
                  /\ \E i \in LineStarts(arg.chars) :
                        description = WithoutNumbering(LineAt(arg.chars, i))

\* A line of three or more repetitions of '=' or of '-', and nothing else.
IsSeparatorLine(line) ==
    /\ Len(line) >= 3
    /\ \E ch \in {"=", "-"} : \A i \in 1..Len(line) : line[i] = ch

\* The lines the text calls headers and separators.
IsHeaderOrSeparator(line) ==
    \/ StartsWithIgnoreCase(line, <<"R", "E", "F", "A", "C", "T", "O", "R",
                                    "I", "N", "G">>)
    \/ StartsWithIgnoreCase(line, <<"S", "U", "G", "G", "E", "S", "T", "I",
                                    "O", "N">>)
    \/ IsSeparatorLine(line)

\* C14: a trimmed non-empty line is discarded if and only if it starts with
\* "REFACTORING" or "SUGGESTION(S)" in any letter case or is a separator line
\* of three or more repeated '=' or '-'; every other non-empty line, a line
\* that begins with "---" and continues with text included, gives a suggestion.
C14_OnlyHeadersAndSeparatorsAreDiscarded ==
    (/\ op = "parseRefactoringSuggestionsFromAgent"
     /\ arg.type = "string"
     /\ ~ContainsMarker(arg))
        => /\ ret.type = "array"
           /\ Len(ret.items) =
                Cardinality({i \in LineStarts(arg.chars) :
                                /\ LineAt(arg.chars, i) # <<>>
                                /\ ~IsHeaderOrSeparator(LineAt(arg.chars, i))})

\* C15: parseRefactoringSuggestionsFromAgent never throws: for every value of
\* the field (absent, null, a string, a number, a boolean, an array or an
\* object) it returns a list.
C15_AlwaysReturnsAList ==
    op = "parseRefactoringSuggestionsFromAgent" => ret.type = "array"

\* The five tabs.
TabNames == {"complexity", "documentation", "refactoring", "structure", "improvements"}

\* The tab was last painted, with data or with a placeholder, by cycle id.
PaintedBy(tab, id) == tab.kind # "initial" /\ tab.by = id

\* The returned cycle ran a rendering pass: it ended with the success alert.
RanRenderingPass(cycle) ==
    /\ cycle.sent
    /\ cycle.alerts[Len(cycle.alerts)].type = "success"

\* The field is absent, empty or not a string.
IsUnusableField(v) == v = JSUndefined \/ v = JSNull \/ v = Str(<<>>) \/ v.type # "string"

\* C16: in a rendering pass every one of the five tabs is painted, whatever
\* complexity_analysis, documentation and refactoring_suggestions carry; a
\* section whose field is absent, empty or not a string shows its placeholder,
\* and the structure and improvements tabs show data.
C16_EverySectionIsPaintedInThePass ==
    (op = "handleFormSubmit" /\ RanRenderingPass(arg))
        => LET results == Get(arg.result, "results")
               painted == arg.after.tabs
           IN  /\ \A name \in TabNames : PaintedBy(painted[name], arg.id)
               /\ \A name \in {"complexity", "documentation", "refactoring"} :
                     IsUnusableField(Get(results,
                         CASE name = "complexity" -> "complexity_analysis"
                           [] name = "documentation" -> "documentation"
                           [] OTHER -> "refactoring_suggestions"))
                        => painted[name].kind = "placeholder"
               /\ painted.structure.kind = "rendered"
               /\ painted.improvements.kind = "rendered"

\* Every character of the string is whitespace.
IsBlank(code) == \A i \in 1..Len(code.chars) : IsWhitespace(code.chars[i])

\* The notices of the two validation failures, in the wording of each file.
ValidationNotices(f) ==
    {Alert(EmptyCodeAlert(f), "error"), Alert(NoOptionsAlert(f), "error")}

\* C17: when the code input is empty or whitespace-only, or no option is
\* selected, handleFormSubmit surfaces one validation notice and returns: no
\* request is sent, no call is left waiting, and currentSessionId, the tabs
\* and the page (the loading overlay included) are as they were.
C17_InvalidFormEndsTheCycleUnchanged ==
    (op = "handleFormSubmit" /\ (IsBlank(arg.code) \/ ~arg.hasOptions))
        => /\ ~arg.sent
           /\ Len(arg.alerts) = 1
           /\ arg.alerts[1] \in ValidationNotices(file)
           /\ arg.after = arg.before
           /\ arg.before = arg.resumed

\* A whitespace-only code input has been submitted on a page that shows the
\* results of an earlier analysis.
C17_Witness ==
    /\ op = "handleFormSubmit"
    /\ IsBlank(arg.code)
    /\ arg.code.chars # <<>>
    /\ arg.hasOptions
    /\ arg.before.tabs.complexity.kind = "rendered"
    /\ ~arg.sent

\* The cycle received a JSON body with a success status.
ReceivedBody(cycle) ==
    cycle.sent /\ cycle.status = StatusOk /\ cycle.result \notin {JSUndefined, NotJson}

\* The response has a results object.
HasResultsObject(result) ==
    result.type = "object" /\ Get(result, "results").type = "object"

\* The response fails the shape check: it is null, or its results property
\* is missing or falsy.
FailsShapeCheck(result) == result = JSNull \/ ~ToBoolean(Get(result, "results"))

\* No tab shows a painting of the cycle.
NoTabPainted(cycle) == \A name \in TabNames : ~PaintedBy(cycle.after.tabs[name], cycle.id)

ReportsFailure(result) ==
    HasResultsObject(result) /\ Get(Get(result, "results"), "success") = Bool(FALSE)

\* C19: a response with results.success === false ends its cycle with one
\* error alert carrying results.error, or "Analysis failed on the server."
\* when there is none; the last step of the cycle paints no tab and leaves
\* currentSessionId alone.  A tab is painted only by a cycle that has received
\* its response, the response having a truthy results property and no
\* success === false, and only in the step in which the cycle returns.
C19_ServerFailureRendersNothing ==
    /\ (op = "handleFormSubmit" /\ ReceivedBody(arg) /\ ReportsFailure(arg.result))
          => LET error == Get(Get(arg.result, "results"), "error")
                 message == IF error.type = "string" /\ error.chars # <<>>
                            THEN error.chars ELSE AnalysisFailedOnServer
             IN  /\ arg.alerts = <<Alert(FailurePrefix(file) \o message, "error")>>
                 /\ NoTabPainted(arg)
                 /\ arg.after.tabs = arg.resumed.tabs
                 /\ arg.after.currentSessionId = arg.resumed.currentSessionId
    /\ (op = "handleFormSubmit" /\ \E name \in TabNames : PaintedBy(arg.after.tabs[name], arg.id))
          => /\ ReceivedBody(arg)
             /\ ~FailsShapeCheck(arg.result)
             /\ ~ReportsFailure(arg.result)
    /\ \A name \in TabNames :
          tabs[name].kind # "initial" => cycles[tabs[name].by] = Returned

\* A response that carries an analysis_id and content but success: false has
\* ended its cycle with the fallback message.
C19_Witness ==
    /\ op = "handleFormSubmit"
    /\ ReceivedBody(arg)
    /\ ReportsFailure(arg.result)
    /\ Get(Get(arg.result, "results"), "analysis_id") = Str(<<"a", "1">>)
    /\ arg.alerts = <<Alert(FailurePrefix(file) \o AnalysisFailedOnServer, "error")>>

\* The cycle was aborted by a rejected network call, a failure status or a
\* response that fails the shape check.
IsAborted(cycle) ==
    /\ cycle.sent
    /\ \/ cycle.status = 0
       \/ cycle.status = StatusError
       \/ ReceivedBody(cycle) /\ FailsShapeCheck(cycle.result)

\* C20: a cycle aborted by a network rejection, a failure status or a failed
\* shape validation leaves currentSessionId, every tab and the visibility of
\* the results area as they were before the submit, and surfaces one error
\* alert.
C20_AbortedCycleLeavesThePageAsBeforeTheSubmit ==
    (op = "handleFormSubmit" /\ IsAborted(arg))
        => /\ arg.after.currentSessionId = arg.before.currentSessionId
           /\ arg.after.tabs = arg.before.tabs
           /\ arg.after.page.resultsHidden = arg.before.page.resultsHidden
           /\ Len(arg.alerts) = 1
           /\ arg.alerts[1].type = "error"

\* The message the specification surfaces for a failure status: the error the
\* JSON body carries, the fixed text for a body that is not JSON, and the
\* generic text with the status code otherwise.
ExpectedStatusMessage(cycle) ==
    LET error == Get(Get(cycle.result, "results"), "error")
    IN  IF cycle.result = NotJson THEN NonJsonErrorResponse
        ELSE IF error.type = "string" /\ error.chars # <<>> THEN error.chars
        ELSE HttpErrorStatus \o DecimalString(cycle.status)

\* C21: a cycle whose response has a failure status surfaces the error of the
\* JSON body when the body carries one, the non-JSON text when the body is not
\* JSON and "HTTP error! status: <code>" otherwise, and paints no tab and
\* stores no session id.
C21_FailureStatusSurfacesTheExtractedOrGenericMessage ==
    (op = "handleFormSubmit" /\ arg.sent /\ arg.status = StatusError)
        => /\ arg.alerts = <<Alert(FailurePrefix(file) \o ExpectedStatusMessage(arg), "error")>>
           /\ NoTabPainted(arg)
           /\ arg.after.tabs = arg.resumed.tabs
           /\ arg.after.currentSessionId = arg.resumed.currentSessionId

\* Cycle c has called showLoadingState and has not returned.
InLoadingState(c) == c <= Len(cycles) /\ cycles[c].pc # "done"

\* Cycle c has just returned, the overlay hidden and the submit button
\* enabled.
LeftLoadingState(c) ==
    /\ op = "handleFormSubmit"
    /\ arg.id = c
    /\ cycles[c] = Returned
    /\ page = arg.after.page
    /\ page.loadingOverlayHidden
    /\ ~page.submitDisabled

\* Every cycle that sent a request returns with the overlay hidden and the
\* submit button enabled.
ReturnsWithLoadingStateLeft ==
    (op = "handleFormSubmit" /\ arg.sent)
        => /\ arg.after.page.loadingOverlayHidden
           /\ ~arg.after.page.submitDisabled

\* C22: every cycle that entered the loading state can settle, and when its
\* request settles it returns, on whichever path (network failure, failure
\* status, malformed response, server-reported failure, rendering exception,
\* success), with the overlay hidden and the submit button enabled; a cycle
\* refused by the form validation never entered the loading state.
C22_EveryCycleLeavesTheLoadingState ==
    /\ ReturnsWithLoadingStateLeft
    /\ \A c \in 1..MaxSubmits : InLoadingState(c) => ENABLED Settles(c)
    /\ \A c \in 1..Len(cycles) :
          (op = "handleFormSubmit" /\ arg.id = c /\ page = arg.after.page /\ arg.sent)
              => LeftLoadingState(c)

\* A cycle whose rendering pass threw has returned with the overlay hidden
\* and the button enabled.
C22_Witness ==
    /\ LeftLoadingState(1)
    /\ arg.sent
    /\ Len(arg.alerts) = 2
    /\ arg.alerts[1].type = "error"
    /\ ~arg.resumed.page.loadingOverlayHidden

\* The cycles whose request has been sent and has not settled.
Outstanding == {c \in 1..Len(cycles) : cycles[c].pc # "done"}

\* C23: at any time at most one analysis request is outstanding.
C23_AtMostOneRequestOutstanding == Cardinality(Outstanding) <= 1

\* C24: countFunctions returns an integer that is at least 1 and is the
\* greater of 1 and the sum, over the eight patterns, of the matches of each;
\* the empty code gives 1, and where no pattern matches twice the result is
\* the number of patterns that match, so that "function foo() {" and a Java
\* method with a body, each matched by two patterns, count 2.
C24_CountIsTheFlooredSumOfThePatternMatches ==
    op = "countFunctions"
        => LET matches == [k \in functionPatterns |-> matchCount(arg.chars, k, 1)]
               sum == matches[1] + matches[2] + matches[3] + matches[4]
                          + matches[5] + matches[6] + matches[7] + matches[8]
               matching == {k \in functionPatterns : matches[k] > 0}
           IN  /\ ret.type = "number"
               /\ ret.num \in Nat
               /\ ret.num >= 1
               /\ ret.num = Max({1, sum})
               /\ arg.chars = <<>> => ret.num = 1
               /\ matching = {} => ret.num = 1
               /\ (\A k \in functionPatterns : matches[k] <= 1)
                     => ret.num = Max({1, Cardinality(matching)})
               /\ arg.chars = <<"f", "u", "n", "c", "t", "i", "o", "n",
                                " ", "f", "o", "o", "(", ")", " ", "{">>
                     => matching = {1, 8} /\ ret.num = 2
               /\ arg.chars = <<"p", "u", "b", "l", "i", "c", " ", "s",
                                "t", "a", "t", "i", "c", " ", "v", "o",
                                "i", "d", " ", "m", "a", "i", "n", "(",
                                "S", "t", "r", "i", "n", "g", "[", "]",
                                " ", "a", "r", "g", "s", ")", " ", "{">>
                     => matching = {4, 8} /\ ret.num = 2

\* A declaration matched by two patterns has been counted twice.
C24_Witness ==
    /\ op = "countFunctions"
    /\ arg.chars = <<"f", "u", "n", "c", "t", "i", "o", "n", " ", "f", "o",
                     "o", "(", ")", " ", "{">>
    /\ ret = Num(2)

\* The file that file is compared with.
OtherFile == IF file = "plain" THEN "hacker" ELSE "plain"

\* C25: the two files agree on the complexity functions: on every text
\* parseComplexityFromAgent of either file returns the same time token, space
\* token, performance_score and score (or null in both), and
\* calculatePerformanceScore and calculateComplexityScore of either file
\* return the same number on every analysis object.
C25_BothFilesComputeTheSameComplexityResults ==
    /\ op = "parseComplexityFromAgent"
          => LET other == parseComplexityFromAgent(OtherFile, arg)
             IN  /\ ret.type = other.type
                 /\ ret.type = "object"
                       => /\ ret.time_complexity = other.time_complexity
                          /\ ret.space_complexity = other.space_complexity
                          /\ ret.performance_score = other.performance_score
                          /\ ret.score = other.score
    /\ op = "calculatePerformanceScore" => ret = calculatePerformanceScore(OtherFile, arg)
    /\ op = "calculateComplexityScore" => ret = calculateComplexityScore(OtherFile, arg)

\* The scores the structure and improvements tabs of a returned cycle show,
\* compared with the scores of the complexity text of its response.
ShowsDerivedScores(cycle) ==
    LET parsed == parseComplexityFromAgent(file,
                      Get(Get(cycle.result, "results"), "complexity_analysis"))
        tokens == Analysis(parsed.time_complexity, parsed.space_complexity)
        structure == cycle.after.tabs.structure
        improvements == cycle.after.tabs.improvements
    IN  /\ structure.kind = "rendered"
        /\ structure.data.complexity_score =
              IF parsed # JSNull THEN calculateComplexityScore(file, tokens) ELSE Num(5)
        /\ improvements.kind = "rendered"
        /\ improvements.data.performance_score =
              IF parsed # JSNull THEN calculatePerformanceScore(file, tokens) ELSE Num(65)
        /\ improvements.data.readability_score = Num(75)
        /\ improvements.data.testing_score = Num(10)

\* C26: in every rendering pass the structure tab is given the complexity
\* score of the extracted time and space tokens, or 5 when the complexity
\* text was not parsed, and the improvements tab the performance score of the
\* extracted time token, or 65 when it was not parsed, readability 75 and
\* testing 10.
C26_RenderingPassShowsTheDerivedScores ==
    (op = "handleFormSubmit" /\ RanRenderingPass(arg))
        => /\ PaintedBy(arg.after.tabs.structure, arg.id)
           /\ PaintedBy(arg.after.tabs.improvements, arg.id)
           /\ ShowsDerivedScores(arg)

\* C27: a cycle that sent a request surfaces exactly one notification: the
\* success notification when the pass painted all five tabs, an error
\* notification otherwise, and never both.
C27_ExactlyOneNotificationPerCycle ==
    (op = "handleFormSubmit" /\ arg.sent)
        => /\ Len(arg.alerts) = 1
           /\ arg.alerts[1].type \in {"success", "error"}
           /\ arg.alerts[1].type = "success"
                 <=> \A name \in TabNames : PaintedBy(arg.after.tabs[name], arg.id)
           /\ ~ \E i, j \in 1..Len(arg.alerts) :
                   arg.alerts[i].type = "success" /\ arg.alerts[j].type = "error"

\* C28: the loading overlay is visible as long as a request is outstanding,
\* and a cycle that returns leaves every tab that a cycle submitted after it
\* has painted as that cycle painted it, so that once overlapping cycles have
\* settled the tabs are those of the most recently submitted one.
C28_LatestSubmissionWinsAndOverlayStays ==
    /\ Outstanding # {} => ~page.loadingOverlayHidden
    /\ op = "handleFormSubmit"
          => \A name \in TabNames :
                (/\ PaintedBy(arg.resumed.tabs[name], arg.resumed.tabs[name].by)
                 /\ arg.resumed.tabs[name].by > arg.id)
                    => arg.after.tabs[name] = arg.resumed.tabs[name]

\* C29: in every rendering pass that reaches the improvements tab, the
\* documentation percentage given to it is 80 exactly when the documentation
\* tab shows rendered documentation and 30 exactly when it shows the
\* placeholder.
C29_DocumentationScoreMatchesTheDocumentationTab ==
    (/\ op = "handleFormSubmit"
     /\ RanRenderingPass(arg)
     /\ PaintedBy(arg.after.tabs.improvements, arg.id))
        => LET documentation == arg.after.tabs.documentation
               score == arg.after.tabs.improvements.data.documentation_score
           IN  /\ PaintedBy(documentation, arg.id)
               /\ score \in {Num(80), Num(30)}
               /\ score = Num(80) <=> documentation.kind = "rendered"
               /\ score = Num(30) <=> documentation.kind = "placeholder"

\* C30: every suggestion parseRefactoringSuggestionsFromAgent returns has a
\* description that is not empty.
C30_EverySuggestionHasADescription ==
    (op = "parseRefactoringSuggestionsFromAgent" /\ ret.type = "array")
        => \A i \in 1..Len(ret.items) :
              /\ ret.items[i].description.type = "string"
              /\ ret.items[i].description.chars # <<>>

====
